---- MODULE Spec2Model ----
(***************************************************************************)
(* CBORPath (dahomey-technologies/cborpath-rs): the evaluator              *)
(* (CborPath::read / CborPath::get_paths) and the streaming write visitor  *)
(* (WriteVisitor), modelled over small CBOR documents.                     *)
(***************************************************************************)
EXTENDS Integers, Sequences, FiniteSets, TLC

(***************************************************************************)
(* Bounds of the model.                                                    *)
(***************************************************************************)
\* a document has at most MaxNodes nodes (scalars and containers)
MaxNodes == 4
\* the failing transform fails at its 1st .. MaxFailAt-th invocation
MaxFailAt == 2
\* the arrays the selectors are run on have at most MaxLen elements
MaxLen == 7
\* the step of a slice lies in -MaxStep .. MaxStep
MaxStep == 3
\* the integers compared by a filter lie in -MaxInt .. MaxInt
MaxInt == 3
\* the maps compared by a filter have at most MaxEntries entries
MaxEntries == 2
\* the path expressions converted have at most MaxSegments segments
MaxSegments == 2
\* a visitor built on its own is given at most MaxTargets target locations
MaxTargets == 2

(***************************************************************************)
(* CBOR values.  A node is a record with the same four fields whatever its *)
(* kind: scalars carry val, arrays carry items, dicts carry keys and items *)
(* (entry i is keys[i] -> items[i], in encoded order; keys may repeat).    *)
(***************************************************************************)
Pos(n) == [kind |-> "Pos", val |-> n, keys |-> <<>>, items |-> <<>>]
\* ItemKind::Neg(n) is the integer -1 - n
Neg(n) == [kind |-> "Neg", val |-> n, keys |-> <<>>, items |-> <<>>]
Str(n) == [kind |-> "Str", val |-> n, keys |-> <<>>, items |-> <<>>]
\* a text string given by its characters, each the sequence of bytes of its UTF-8
\* encoding: "a" is <<97>>, "e" with an acute accent is <<195, 169>>
Text(chars) == [kind |-> "Str", val |-> chars, keys |-> <<>>, items |-> <<>>]
\* a byte string given by its bytes
Bytes(b) == [kind |-> "Bytes", val |-> b, keys |-> <<>>, items |-> <<>>]
Null == [kind |-> "Null", val |-> 0, keys |-> <<>>, items |-> <<>>]
Array(elems) == [kind |-> "Array", val |-> 0, keys |-> <<>>, items |-> elems]
Dict(ks, vs) == [kind |-> "Dict", val |-> 0, keys |-> ks, items |-> vs]

\* the text strings "a" and "b", used as map keys
KeyA == Str(1)
KeyB == Str(2)
Keys == {KeyA, KeyB}
\* the scalars a document is built from
Scalars == {Pos(1)}
\* the values written by set: a scalar and a map
NewValue == Pos(7)
NewMap == Dict(<<KeyA>>, <<Pos(7)>>)

\* IntoCborOwned for i64: write_pos(self) or write_neg(-1 - self)
IntoCborOwned(i) == IF i >= 0 THEN Pos(i) ELSE Neg(-1 - i)

IsArray(v) == v.kind = "Array"
IsDict(v) == v.kind = "Dict"
IsContainer(v) == IsArray(v) \/ IsDict(v)

Min(a, b) == IF a <= b THEN a ELSE b

RECURSIVE Forests(_)
RECURSIVE Trees(_)
\* the sequences of nodes that hold m nodes in total
Forests(m) ==
    IF m = 0 THEN {<<>>}
    ELSE UNION {{<<t>> \o f : t \in Trees(j), f \in Forests(m - j)} : j \in 1..m}
\* the nodes that hold exactly n nodes
Trees(n) ==
    IF n = 1 THEN Scalars \cup {Array(<<>>), Dict(<<>>, <<>>)}
    ELSE {Array(f) : f \in Forests(n - 1)}
         \cup UNION {{Dict(ks, f) : ks \in [1..Len(f) -> Keys]} : f \in Forests(n - 1)}

Docs == UNION {Trees(n) : n \in 1..MaxNodes}

(***************************************************************************)
(* Locations: Path / PathElement of cbor_path.rs.                          *)
(***************************************************************************)
PathElement_Index(i) == [tag |-> "Index", index |-> i, key |-> Null]
PathElement_Key(k) == [tag |-> "Key", index |-> 0, key |-> k]

append_index(path, i) == Append(path, PathElement_Index(i))
append_key(path, k) == Append(path, PathElement_Key(k))

(***************************************************************************)
(* Sequence helpers standing for the Rust iterator adapters.               *)
(***************************************************************************)
RECURSIVE Concat(_)
\* Iterator::flat_map(..).collect(): the concatenation of a sequence of sequences
Concat(seqs) == IF seqs = <<>> THEN <<>> ELSE Head(seqs) \o Concat(Tail(seqs))

\* Vec::reverse
Reverse(s) == [i \in 1..Len(s) |-> s[Len(s) + 1 - i]]

\* the location of child i (1-based position) of a container at location path
child_path(value, path, i) ==
    IF IsArray(value) THEN append_index(path, i - 1) ELSE append_key(path, value.keys[i])

(***************************************************************************)
(* value_equals (cbor_path.rs).  Arrays compare their elements, and dicts  *)
(* their keys, with Cbor's own equality (the encoded item), which is the   *)
(* equality of nodes here.  The second dict is read through one iterator   *)
(* that find_map advances and never rewinds.                               *)
(***************************************************************************)
\* the first position >= from of ks holding key, or 0
RECURSIVE find_from(_, _, _)
find_from(ks, key, from) ==
    IF from > Len(ks) THEN 0
    ELSE IF ks[from] = key THEN from
    ELSE find_from(ks, key, from + 1)

RECURSIVE value_equals(_, _)
RECURSIVE dict_all(_, _, _, _)
\* d1.all(|(key, v1)| d2.find_map(..)) from entry i of d1, d2 standing at position from
dict_all(d1, d2, i, from) ==
    IF i > Len(d1.keys) THEN TRUE
    ELSE LET j == find_from(d2.keys, d1.keys[i], from)
         IN  /\ j # 0
             /\ value_equals(d1.items[i], d2.items[j])
             /\ dict_all(d1, d2, i + 1, j + 1)

value_equals(v1, v2) ==
    IF v1.kind # v2.kind THEN FALSE
    ELSE IF v1.kind = "Array" THEN
        /\ Len(v1.items) = Len(v2.items)
        /\ \A i \in 1..Len(v1.items) : v1.items[i] = v2.items[i]
    ELSE IF v1.kind = "Dict" THEN
        /\ Len(v1.keys) = Len(v2.keys)
        /\ dict_all(v1, v2, 1, 1)
    ELSE v1.val = v2.val

(***************************************************************************)
(* normalize_index and the usize casts of the slice arithmetic.            *)
(***************************************************************************)
\* normalize_index that also clamps at 0
normalize_index_clamped(i, len) == IF i >= 0 THEN i ELSE IF len + i < 0 THEN 0 ELSE len + i

normalize_index(i, len) == IF i >= 0 THEN i ELSE len + i

\* usize::min(x as usize, len): a negative isize casts to a value above any len
usize_min(x, len) == IF x < 0 THEN len ELSE Min(x, len)

\* Rust's % on isize: the remainder has the sign of the dividend
rem(a, b) ==
    LET m == IF b < 0 THEN -b ELSE b
    IN  IF a >= 0 THEN a % m ELSE -((-a) % m)

\* end - start on usize in a build without overflow checks: the difference wraps
\* to a value above any len when end < start, and take() of it takes every element
wrapping_sub(a, b, len) == IF a >= b THEN a - b ELSE len

\* the 0-based indices that skip(s).take(n).step_by(step) yields over len elements
skip_take_step_by(len, s, n, step) ==
    LET stop == Min(s + n, len)
        avail == IF stop > s THEN stop - s ELSE 0
        count == (avail + step - 1) \div step
    IN  [k \in 1..count |-> s + (k - 1) * step]

(***************************************************************************)
(* The path expression (AST).  Function::Regex is not among the            *)
(* expressions evaluated here, and the argument of Function::Length is a   *)
(* value or a singular path.                                               *)
(***************************************************************************)
KeySel(k) == [t |-> "Key", key |-> k]
WildcardSel == [t |-> "Wildcard"]
IndexSel(i) == [t |-> "Index", index |-> i]
SliceSel(a, b, c) == [t |-> "Slice", start |-> a, end |-> b, step |-> c]
FilterSel(e) == [t |-> "Filter", expr |-> e]

Child(sels) == [descendant |-> FALSE, selectors |-> sels]
Descendant(sels) == [descendant |-> TRUE, selectors |-> sels]

AbsPath(segs) == [abs |-> TRUE, segments |-> segs]
RelPath(segs) == [abs |-> FALSE, segments |-> segs]

Or(l, r) == [t |-> "Or", l |-> l, r |-> r]
And(l, r) == [t |-> "And", l |-> l, r |-> r]
Not(e) == [t |-> "Not", e |-> e]
Comparison(l, o, r) == [t |-> "Comparison", left |-> l, op |-> o, right |-> r]
PathExpr(p) == [t |-> "Path", path |-> p]

Value(v) == [t |-> "Value", value |-> v]
SingularPath(a, segs) == [t |-> "SingularPath", abs |-> a, segments |-> segs]
Count(p) == [t |-> "Count", path |-> p]
Length(c) == [t |-> "Length", arg |-> c]

\* Option<&Cbor> of the singular readers
None == [some |-> FALSE, value |-> Null]
Some(v) == [some |-> TRUE, value |-> v]

\* Option::map(|v| vec![v]).unwrap_or_else(Vec::new)
option_to_vec(r) == IF r.some THEN <<r.value>> ELSE <<>>

\* the elements of items at the 1-based positions hits, in the order of hits
select(items, hits) == [k \in 1..Len(hits) |-> items[hits[k]]]

\* the elements of an array at the 0-based indices idx
select_indices(items, idx) == [k \in 1..Len(idx) |-> items[idx[k] + 1]]

(***************************************************************************)
(* Selectors: read.                                                        *)
(***************************************************************************)
\* Iterator::find_map over the entries: the first position whose key value_equals key, or 0
RECURSIVE find_key(_, _, _)
find_key(ks, key, from) ==
    IF from > Len(ks) THEN 0
    ELSE IF value_equals(ks[from], key) THEN from
    ELSE find_key(ks, key, from + 1)

\* the value at position hit of the entries, if any
entry_at(value, hit) == IF hit = 0 THEN None ELSE Some(value.items[hit])

\* KeySelector::read_single: the value of the first entry whose key value_equals key
KeySelector_read_single(sel, value) ==
    IF ~IsDict(value) THEN None
    ELSE entry_at(value, find_key(value.keys, sel.key, 1))

KeySelector_read(sel, value) == option_to_vec(KeySelector_read_single(sel, value))

WildcardSelector_read(value) ==
    IF IsContainer(value) THEN value.items ELSE <<>>

\* Iterator::nth(index as usize) over the elements of an array
nth(items, index) ==
    IF index >= 0 /\ index < Len(items) THEN Some(items[index + 1]) ELSE None

\* IndexSelector::read_single
IndexSelector_read_single(sel, value) ==
    IF ~IsArray(value) THEN None
    ELSE nth(value.items, normalize_index(sel.index, Len(value.items)))

IndexSelector_read(sel, value) == option_to_vec(IndexSelector_read_single(sel, value))

\* the window of a slice with step > 0 over len elements, start and end normalized:
\* skip(start).take(end - start) after the clamping
slice_forward(start, end, len) ==
    [skip |-> usize_min(start, len), stop |-> usize_min(end, len)]

\* the window of a slice with step < 0: skip(actual_start).take(actual_end - actual_start)
slice_backward(start, end, step, len) ==
    [skip |-> usize_min(end + 1 + rem(start, -step) - rem(end + 1, step), len),
     stop |-> usize_min(start + 1, len)]

\* the window SliceSelector::read and SliceSelector::get_paths compute (sel.step # 0)
slice_window(sel, len) ==
    IF sel.step > 0
    THEN slice_forward(normalize_index(sel.start, len), normalize_index(sel.end, len), len)
    ELSE slice_backward(normalize_index(sel.start, len), normalize_index(sel.end, len),
                        sel.step, len)

\* the subtraction stop - skip of the window underflows (with step 0 the remainder
\* panics before the subtraction)
SliceSelector_underflows(sel, len) ==
    sel.step # 0 /\ slice_window(sel, len).stop < slice_window(sel, len).skip

\* the 0-based indices the iterator chain of a slice yields, before any reverse
slice_iter(w, step, len) ==
    skip_take_step_by(len, w.skip, wrapping_sub(w.stop, w.skip, len),
                      IF step > 0 THEN step ELSE -step)

\* SliceSelector::read without result.reverse()
SliceSelector_read_no_reverse(sel, value) ==
    IF ~IsArray(value) THEN <<>>
    ELSE select_indices(value.items,
             slice_iter(slice_window(sel, Len(value.items)), sel.step, Len(value.items)))

\* SliceSelector::read
SliceSelector_read(sel, value) ==
    IF ~IsArray(value) THEN <<>>
    ELSE IF sel.step > 0
    THEN select_indices(value.items,
             slice_iter(slice_window(sel, Len(value.items)), sel.step, Len(value.items)))
    ELSE Reverse(select_indices(value.items,
             slice_iter(slice_window(sel, Len(value.items)), sel.step, Len(value.items))))

(***************************************************************************)
(* Segments, paths and the filter expression: read.                        *)
(***************************************************************************)
RECURSIVE fetch_descendants_depth_first(_)
\* fetch_descendants that appends each child right before the descendants of that
\* child
fetch_descendants_depth_first(value) ==
    IF IsContainer(value)
    THEN Concat([i \in 1..Len(value.items) |->
              <<value.items[i]>> \o fetch_descendants_depth_first(value.items[i])])
    ELSE <<>>

RECURSIVE fetch_descendants(_)
\* Segment::fetch_descendants: what one call appends to descendants: the children
\* of value, then what the call on each child appends
fetch_descendants(value) ==
    IF IsContainer(value)
    THEN value.items \o Concat([i \in 1..Len(value.items) |-> fetch_descendants(value.items[i])])
    ELSE <<>>

RECURSIVE Segments_read(_, _, _)
RECURSIVE BooleanExpr_read(_, _, _)

AbsolutePath_read(segments, root) == Segments_read(segments, root, <<root>>)

RelativePath_evaluate(segments, root, current) == Segments_read(segments, root, <<current>>)

FilterPath_evaluate(path, root, current) ==
    Segments_read(path.segments, root, IF path.abs THEN <<root>> ELSE <<current>>)

SingularSegment_read(seg, value) ==
    IF seg.t = "Key" THEN KeySelector_read_single(seg, value)
    ELSE IndexSelector_read_single(seg, value)

RECURSIVE SingularPath_read_impl(_, _)
\* the match on segment.read(current_value) in the loop of read_impl
SingularPath_read_next(segments, r) ==
    IF r.some THEN SingularPath_read_impl(segments, r.value) ELSE None

SingularPath_read_impl(segments, value) ==
    IF segments = <<>> THEN Some(value)
    ELSE SingularPath_read_next(Tail(segments), SingularSegment_read(Head(segments), value))

SingularPath_read(path, root, current) ==
    SingularPath_read_impl(path.segments, IF path.abs THEN root ELSE current)

RECURSIVE Comparable_read(_, _, _)

\* Function::read_as_comparable.  Function::Length matches on the kind of its
\* argument: the size of an array or a dict, s.len() of a text string (the bytes
\* of its fragments), b.len() of a byte string, 1 for every other item, None for
\* None.  Function::Count is the length of the nodelist of its path.
Function_read_as_comparable(function, root, current) ==
    IF function.t = "Length" THEN
        LET value == Comparable_read(function.arg, root, current)
        IN  IF ~value.some THEN None
            ELSE CASE IsContainer(value.value) -> Some(Pos(Len(value.value.items)))
                   [] value.value.kind = "Str" -> Some(Pos(Len(Concat(value.value.val))))
                   [] value.value.kind = "Bytes" -> Some(Pos(Len(value.value.val)))
                   [] OTHER -> Some(Pos(1))
    ELSE Some(Pos(Len(FilterPath_evaluate(function.path, root, current))))

Comparable_read(c, root, current) ==
    IF c.t = "Value" THEN Some(c.value)
    ELSE IF c.t = "SingularPath" THEN SingularPath_read(c, root, current)
    ELSE Function_read_as_comparable(c, root, current)

\* Comparable::equals without its (None, None) arm
option_equals_present_only(v1, v2) ==
    v1.some /\ v2.some /\ value_equals(v1.value, v2.value)

\* the match of Comparable::equals on the two operands read
option_equals(v1, v2) ==
    IF ~v1.some /\ ~v2.some THEN TRUE
    ELSE IF v1.some /\ v2.some THEN value_equals(v1.value, v2.value)
    ELSE FALSE

Comparable_equals(c1, c2, root, current) ==
    option_equals(Comparable_read(c1, root, current), Comparable_read(c2, root, current))

\* the match of Comparable::lesser_than on the two operands read
option_lesser_than(v1, v2) ==
    /\ v1.some
    /\ v2.some
    /\ v1.value.kind = v2.value.kind
    /\ v1.value.kind \in {"Pos", "Neg", "Str"}
    /\ v1.value.val < v2.value.val

Comparable_lesser_than(c1, c2, root, current) ==
    option_lesser_than(Comparable_read(c1, root, current), Comparable_read(c2, root, current))

\* the match of ComparisonExpr::read on the operator: eq is left.equals(right),
\* lt is left.lesser_than(right), gt is right.lesser_than(left)
comparison(op, eq, lt, gt) ==
    CASE op = "Eq" -> eq
      [] op = "Neq" -> ~eq
      [] op = "Gt" -> gt
      [] op = "Gte" -> gt \/ eq
      [] op = "Lt" -> lt
      [] op = "Lte" -> lt \/ eq

ComparisonExpr_read(e, root, current) ==
    comparison(e.op,
               Comparable_equals(e.left, e.right, root, current),
               Comparable_lesser_than(e.left, e.right, root, current),
               Comparable_lesser_than(e.right, e.left, root, current))

BooleanExpr_read(e, root, current) ==
    CASE e.t = "Or" -> BooleanExpr_read(e.l, root, current) \/ BooleanExpr_read(e.r, root, current)
      [] e.t = "And" -> BooleanExpr_read(e.l, root, current) /\ BooleanExpr_read(e.r, root, current)
      [] e.t = "Not" -> ~BooleanExpr_read(e.e, root, current)
      [] e.t = "Comparison" -> ComparisonExpr_read(e, root, current)
      [] e.t = "Path" -> FilterPath_evaluate(e.path, root, current) # <<>>

\* Iterator::filter: the positions from i on of the children for which the expression is true
RECURSIVE filter_positions(_, _, _, _)
filter_positions(expr, root, items, i) ==
    IF i > Len(items) THEN <<>>
    ELSE (IF BooleanExpr_read(expr, root, items[i]) THEN <<i>> ELSE <<>>)
         \o filter_positions(expr, root, items, i + 1)

\* FilterSelector::read handing the container it iterates to the expression as
\* the root
FilterSelector_read_rooted_at_current(sel, root, current) ==
    IF ~IsContainer(current) THEN <<>>
    ELSE select(current.items, filter_positions(sel.expr, current, current.items, 1))

FilterSelector_read(sel, root, current) ==
    IF ~IsContainer(current) THEN <<>>
    ELSE select(current.items, filter_positions(sel.expr, root, current.items, 1))

Selector_read(sel, root, current) ==
    CASE sel.t = "Key" -> KeySelector_read(sel, current)
      [] sel.t = "Wildcard" -> WildcardSelector_read(current)
      [] sel.t = "Index" -> IndexSelector_read(sel, current)
      [] sel.t = "Slice" -> SliceSelector_read(sel, current)
      [] sel.t = "Filter" -> FilterSelector_read(sel, root, current)

\* the values a segment applies its selectors to: current_values for a child
\* segment, each value followed by fetch_descendants for a descendant segment
Segment_read_inputs(segment, current_values) ==
    IF segment.descendant
    THEN Concat([i \in 1..Len(current_values) |->
                    <<current_values[i]>> \o fetch_descendants(current_values[i])])
    ELSE current_values

\* the two flat_map exchanged: every input for the first selector, then every input
\* for the next
Selectors_read_selector_major(selectors, root, inputs) ==
    Concat([j \in 1..Len(selectors) |->
        Concat([i \in 1..Len(inputs) |-> Selector_read(selectors[j], root, inputs[i])])])

\* inputs.flat_map(|current| selectors.iter().flat_map(|s| s.read(root, current)))
Selectors_read(selectors, root, inputs) ==
    Concat([i \in 1..Len(inputs) |->
        Concat([j \in 1..Len(selectors) |-> Selector_read(selectors[j], root, inputs[i])])])

Segment_read(segment, root, current_values) ==
    Selectors_read(segment.selectors, root, Segment_read_inputs(segment, current_values))

\* the loop of AbsolutePath::read / RelativePath::evaluate over the segments
Segments_read(segments, root, values) ==
    IF segments = <<>> THEN values
    ELSE Segments_read(Tail(segments), root, Segment_read(Head(segments), root, values))

\* CborPath::read
CborPath_read(segments, root) == AbsolutePath_read(segments, root)

(***************************************************************************)
(* Selectors, segments and paths: get_paths.  A result is the pair of      *)
(* vectors (values, paths) the code returns.                               *)
(***************************************************************************)
NoPaths == [values |-> <<>>, paths |-> <<>>]

\* Iterator::zip of two vectors, as a sequence of pairs: as long as the shorter
Zip(values, ps) ==
    [k \in 1..Min(Len(values), Len(ps)) |-> [value |-> values[k], path |-> ps[k]]]

\* Iterator::zip of the two vectors of a result
ZipResult(r) == Zip(r.values, r.paths)

\* Iterator::unzip
Unzip(pairs) ==
    [values |-> [k \in 1..Len(pairs) |-> pairs[k].value],
     paths |-> [k \in 1..Len(pairs) |-> pairs[k].path]]

\* the result for the value r found by read_single, at location p
single_path(r, p) == IF r.some THEN [values |-> <<r.value>>, paths |-> <<p>>] ELSE NoPaths

\* KeySelector::get_path: the location ends with the selector's own key
KeySelector_get_path(sel, value, path) ==
    single_path(KeySelector_read_single(sel, value), append_key(path, sel.key))

WildcardSelector_get_paths(value, path) ==
    IF IsDict(value) THEN
        [values |-> value.items,
         paths |-> [k \in 1..Len(value.keys) |-> append_key(path, value.keys[k])]]
    ELSE IF IsArray(value) THEN
        [values |-> value.items,
         paths |-> [k \in 1..Len(value.items) |-> append_index(path, k - 1)]]
    ELSE NoPaths

\* array.nth(index).map(|v| (vec![v], vec![path.append_index(index)]))
nth_path(items, index, path) == single_path(nth(items, index), append_index(path, index))

\* IndexSelector::get_paths without normalize_index: a negative index finds nothing
IndexSelector_get_paths_no_normalize(sel, value, path) ==
    IF ~IsArray(value) THEN NoPaths
    ELSE nth_path(value.items, sel.index, path)

IndexSelector_get_paths(sel, value, path) ==
    IF ~IsArray(value) THEN NoPaths
    ELSE nth_path(value.items, normalize_index(sel.index, Len(value.items)), path)

\* enumerate() ... map(|(i, v)| (v, path.append_index(i))).unzip() over the indices idx
enumerate_paths(items, idx, path) ==
    [values |-> [k \in 1..Len(idx) |-> items[idx[k] + 1]],
     paths |-> [k \in 1..Len(idx) |-> append_index(path, idx[k])]]

\* values.reverse(); paths.reverse()
reverse_both(r) == [values |-> Reverse(r.values), paths |-> Reverse(r.paths)]

\* SliceSelector::get_paths without paths.reverse(): only the values are reversed
SliceSelector_get_paths_no_reverse(sel, value, path) ==
    IF ~IsArray(value) THEN NoPaths
    ELSE IF sel.step > 0
    THEN enumerate_paths(value.items,
             slice_iter(slice_window(sel, Len(value.items)), sel.step, Len(value.items)), path)
    ELSE [values |-> Reverse(enumerate_paths(value.items,
                slice_iter(slice_window(sel, Len(value.items)), sel.step,
                           Len(value.items)), path).values),
          paths |-> enumerate_paths(value.items,
                slice_iter(slice_window(sel, Len(value.items)), sel.step,
                           Len(value.items)), path).paths]

\* SliceSelector::get_paths
SliceSelector_get_paths(sel, value, path) ==
    IF ~IsArray(value) THEN NoPaths
    ELSE IF sel.step > 0
    THEN enumerate_paths(value.items,
             slice_iter(slice_window(sel, Len(value.items)), sel.step, Len(value.items)), path)
    ELSE reverse_both(enumerate_paths(value.items,
             slice_iter(slice_window(sel, Len(value.items)), sel.step, Len(value.items)), path))

\* filter_map(..).unzip() over the children at the positions hits
filter_paths(current, hits, path) ==
    [values |-> [k \in 1..Len(hits) |-> current.items[hits[k]]],
     paths |-> [k \in 1..Len(hits) |-> child_path(current, path, hits[k])]]

FilterSelector_get_paths(sel, root, current, path) ==
    IF ~IsContainer(current) THEN NoPaths
    ELSE filter_paths(current, filter_positions(sel.expr, root, current.items, 1), path)

Selector_get_paths(sel, root, current, current_path) ==
    CASE sel.t = "Key" -> KeySelector_get_path(sel, current, current_path)
      [] sel.t = "Wildcard" -> WildcardSelector_get_paths(current, current_path)
      [] sel.t = "Index" -> IndexSelector_get_paths(sel, current, current_path)
      [] sel.t = "Slice" -> SliceSelector_get_paths(sel, current, current_path)
      [] sel.t = "Filter" -> FilterSelector_get_paths(sel, root, current, current_path)

RECURSIVE fetch_descendants_with_paths_arrays_only(_, _)
\* fetch_descendants_with_paths without the arm of ItemKind::Dict
fetch_descendants_with_paths_arrays_only(value, path) ==
    IF IsArray(value)
    THEN [i \in 1..Len(value.items) |->
              [value |-> value.items[i], path |-> child_path(value, path, i)]]
         \o Concat([i \in 1..Len(value.items) |->
              fetch_descendants_with_paths_arrays_only(value.items[i],
                                                       child_path(value, path, i))])
    ELSE <<>>

RECURSIVE fetch_descendants_with_paths(_, _)
\* Segment::fetch_descendants_with_paths: the (value, path) pairs one call appends
fetch_descendants_with_paths(value, path) ==
    IF IsContainer(value)
    THEN [i \in 1..Len(value.items) |->
              [value |-> value.items[i], path |-> child_path(value, path, i)]]
         \o Concat([i \in 1..Len(value.items) |->
              fetch_descendants_with_paths(value.items[i], child_path(value, path, i))])
    ELSE <<>>

\* the (value, path) pairs a segment applies its selectors to
Segment_get_paths_inputs(segment, current) ==
    IF segment.descendant
    THEN Concat([i \in 1..Len(current) |->
             <<current[i]>> \o fetch_descendants_with_paths(current[i].value, current[i].path)])
    ELSE current

\* inputs.flat_map(|(c, p)| selectors.iter().flat_map(|s| s.get_paths(root, c, p) zipped))
Selectors_get_paths(selectors, root, inputs) ==
    Concat([i \in 1..Len(inputs) |->
        Concat([j \in 1..Len(selectors) |->
            ZipResult(Selector_get_paths(selectors[j], root, inputs[i].value, inputs[i].path))])])

\* Segment::get_paths
Segment_get_paths(segment, root, current_values, current_paths) ==
    Unzip(Selectors_get_paths(segment.selectors, root,
              Segment_get_paths_inputs(segment, Zip(current_values, current_paths))))

RECURSIVE Segments_get_paths(_, _, _)
\* the loop of AbsolutePath::get_paths over the segments, r the pair of vectors so far
Segments_get_paths(segments, root, r) ==
    IF segments = <<>> THEN r.paths
    ELSE Segments_get_paths(Tail(segments), root,
                            Segment_get_paths(Head(segments), root, r.values, r.paths))

\* AbsolutePath::get_paths: a path with no segment has no location
AbsolutePath_get_paths(segments, root) ==
    IF segments = <<>> THEN <<>>
    ELSE Segments_get_paths(segments, root, [values |-> <<root>>, paths |-> <<<<>>>>])

CborPath_get_paths(segments, root) == AbsolutePath_get_paths(segments, root)

(***************************************************************************)
(* Arithmetic underflow.  `end - start` and `actual_end - actual_start`    *)
(* (cbor_path.rs 524, 535, 561, 574) are usize subtractions: a build with  *)
(* overflow checks panics when the result would be negative, a build       *)
(* without them wraps.  These operators tell whether an evaluation meets   *)
(* such a subtraction.                                                     *)
(***************************************************************************)
RECURSIVE Segments_underflow(_, _, _)
RECURSIVE BooleanExpr_underflows(_, _, _)

FilterPath_underflows(p, root, current) ==
    Segments_underflow(p.segments, root, IF p.abs THEN <<root>> ELSE <<current>>)

Comparable_underflows(c, root, current) ==
    c.t = "Count" /\ FilterPath_underflows(c.path, root, current)

\* the right operand of a short-circuit operator is evaluated
evaluates_right(e, root, current) ==
    IF e.t = "Or" THEN ~BooleanExpr_read(e.l, root, current)
    ELSE BooleanExpr_read(e.l, root, current)

BooleanExpr_underflows(e, root, current) ==
    CASE e.t \in {"Or", "And"} ->
            \/ BooleanExpr_underflows(e.l, root, current)
            \/ /\ evaluates_right(e, root, current)
               /\ BooleanExpr_underflows(e.r, root, current)
      [] e.t = "Not" -> BooleanExpr_underflows(e.e, root, current)
      [] e.t = "Comparison" -> \/ Comparable_underflows(e.left, root, current)
                               \/ Comparable_underflows(e.right, root, current)
      [] e.t = "Path" -> FilterPath_underflows(e.path, root, current)

Selector_underflows(sel, root, current) ==
    CASE sel.t = "Slice" ->
            IsArray(current) /\ SliceSelector_underflows(sel, Len(current.items))
      [] sel.t = "Filter" ->
            /\ IsContainer(current)
            /\ \E i \in 1..Len(current.items) :
                   BooleanExpr_underflows(sel.expr, root, current.items[i])
      [] OTHER -> FALSE

Selectors_underflow(selectors, root, inputs) ==
    \E i \in 1..Len(inputs) : \E j \in 1..Len(selectors) :
        Selector_underflows(selectors[j], root, inputs[i])

Segments_underflow(segments, root, values) ==
    IF segments = <<>> THEN FALSE
    ELSE \/ Selectors_underflow(Head(segments).selectors, root,
                                Segment_read_inputs(Head(segments), values))
         \/ Segments_underflow(Tail(segments), root,
                               Segment_read(Head(segments), root, values))

\* CborPath::read and CborPath::get_paths run the same subtractions on the same values
CborPath_underflows(segments, root) == Segments_underflow(segments, root, <<root>>)

(***************************************************************************)
(* Division by zero.  A slice with step 0 takes the branch of step < 0,    *)
(* where `start % -step` and `(end + 1) % step` (cbor_path.rs 529, 568)    *)
(* are remainders by zero: they panic in every build.  These operators     *)
(* tell whether an evaluation meets such a slice on an array.              *)
(***************************************************************************)
RECURSIVE Segments_divide_by_zero(_, _, _)
RECURSIVE BooleanExpr_divides_by_zero(_, _, _)

SliceSelector_divides_by_zero(sel) == sel.step = 0

FilterPath_divides_by_zero(p, root, current) ==
    Segments_divide_by_zero(p.segments, root, IF p.abs THEN <<root>> ELSE <<current>>)

Comparable_divides_by_zero(c, root, current) ==
    c.t = "Count" /\ FilterPath_divides_by_zero(c.path, root, current)

BooleanExpr_divides_by_zero(e, root, current) ==
    CASE e.t \in {"Or", "And"} ->
            \/ BooleanExpr_divides_by_zero(e.l, root, current)
            \/ /\ evaluates_right(e, root, current)
               /\ BooleanExpr_divides_by_zero(e.r, root, current)
      [] e.t = "Not" -> BooleanExpr_divides_by_zero(e.e, root, current)
      [] e.t = "Comparison" -> \/ Comparable_divides_by_zero(e.left, root, current)
                               \/ Comparable_divides_by_zero(e.right, root, current)
      [] e.t = "Path" -> FilterPath_divides_by_zero(e.path, root, current)

Selector_divides_by_zero(sel, root, current) ==
    CASE sel.t = "Slice" -> IsArray(current) /\ SliceSelector_divides_by_zero(sel)
      [] sel.t = "Filter" ->
            /\ IsContainer(current)
            /\ \E i \in 1..Len(current.items) :
                   BooleanExpr_divides_by_zero(sel.expr, root, current.items[i])
      [] OTHER -> FALSE

Selectors_divide_by_zero(selectors, root, inputs) ==
    \E i \in 1..Len(inputs) : \E j \in 1..Len(selectors) :
        Selector_divides_by_zero(selectors[j], root, inputs[i])

Segments_divide_by_zero(segments, root, values) ==
    IF segments = <<>> THEN FALSE
    ELSE \/ Selectors_divide_by_zero(Head(segments).selectors, root,
                                     Segment_read_inputs(Head(segments), values))
         \/ Segments_divide_by_zero(Tail(segments), root,
                                    Segment_read(Head(segments), root, values))

CborPath_divides_by_zero(segments, root) == Segments_divide_by_zero(segments, root, <<root>>)

(***************************************************************************)
(* The paths and the transforms the model runs.                            *)
(***************************************************************************)
Current == SingularPath(FALSE, <<>>)

\* the expressions evaluated by CborPath::read and CborPath::get_paths
ReadPaths ==
    << <<>>,
       <<Child(<<KeySel(KeyA)>>)>>,
       <<Child(<<WildcardSel>>)>>,
       <<Child(<<IndexSel(0)>>)>>,
       <<Child(<<IndexSel(-1)>>)>>,
       <<Child(<<IndexSel(-2)>>), Child(<<KeySel(KeyB)>>)>>,
       <<Child(<<WildcardSel>>), Child(<<WildcardSel>>)>>,
       <<Child(<<WildcardSel, IndexSel(0)>>)>>,
       <<Descendant(<<WildcardSel>>)>>,
       <<Descendant(<<KeySel(KeyA)>>)>>,
       <<Descendant(<<IndexSel(0)>>), Child(<<WildcardSel>>)>>,
       <<Descendant(<<WildcardSel>>), Child(<<WildcardSel, WildcardSel>>)>>,
       <<Child(<<SliceSel(0, 2, 1)>>)>>,
       <<Child(<<SliceSel(1, 0, 1)>>)>>,
       <<Child(<<SliceSel(-1, -4, -1)>>)>>,
       <<Child(<<SliceSel(2, 0, -2)>>)>>,
       <<Child(<<SliceSel(0, 2, -1)>>)>>,
       <<Child(<<FilterSel(Comparison(Current, "Eq", Value(Pos(1))))>>)>>,
       <<Child(<<FilterSel(Not(PathExpr(RelPath(<<Child(<<WildcardSel>>)>>))))>>)>>,
       <<Descendant(<<FilterSel(PathExpr(RelPath(<<Child(<<KeySel(KeyA)>>)>>)))>>)>>,
       <<Child(<<FilterSel(Comparison(Count(AbsPath(<<Child(<<WildcardSel>>)>>)), "Gt",
                                      Count(RelPath(<<Child(<<WildcardSel>>)>>))))>>)>>,
       <<Child(<<WildcardSel>>),
         Child(<<FilterSel(Or(Comparison(Current, "Neq", SingularPath(TRUE, <<KeySel(KeyA)>>)),
                              PathExpr(RelPath(<<Child(<<SliceSel(1, 0, 1)>>)>>))))>>)>>,
       <<Descendant(<<FilterSel(Comparison(SingularPath(FALSE, <<KeySel(KeyA)>>), "Eq",
                                           SingularPath(TRUE, <<KeySel(KeyA)>>)))>>)>>,
       <<Child(<<FilterSel(PathExpr(RelPath(
             <<Child(<<FilterSel(Comparison(Current, "Eq",
                                            SingularPath(TRUE, <<KeySel(KeyA)>>)))>>)>>)))>>)>> >>

\* the expressions CborPath::write is run with
WritePaths ==
    << <<>>,
       <<Child(<<KeySel(KeyA)>>)>>,
       <<Child(<<WildcardSel>>)>>,
       <<Child(<<IndexSel(0)>>)>>,
       <<Child(<<IndexSel(-1)>>)>>,
       <<Child(<<KeySel(KeyA)>>), Child(<<IndexSel(1)>>)>>,
       <<Child(<<WildcardSel>>), Child(<<WildcardSel>>)>>,
       <<Child(<<WildcardSel>>), Child(<<IndexSel(0)>>)>>,
       <<Descendant(<<WildcardSel>>)>>,
       <<Descendant(<<KeySel(KeyB)>>)>>,
       <<Child(<<FilterSel(Comparison(Current, "Eq", Value(Pos(1))))>>)>>,
       <<Child(<<SliceSel(1, 0, 1)>>)>> >>

\* a transform: what map_function returns, and the invocation it fails at (0: never)
Transform(n, k) == [name |-> n, failAt |-> k]
Transforms ==
    {Transform(n, 0) : n \in {"delete", "set", "set_map", "identity", "append"}}
    \cup {Transform("set", k) : k \in 1..MaxFailAt}

\* Some(new value) or None, for a transform that does not fail
map_function(t, old_value) ==
    CASE t.name = "delete" -> None
      [] t.name = "set" -> Some(NewValue)
      [] t.name = "set_map" -> Some(NewMap)
      [] t.name = "identity" -> Some(old_value)
      [] t.name = "append" ->
            IF IsArray(old_value) THEN Some(Array(Append(old_value.items, NewValue)))
            ELSE Some(old_value)

(***************************************************************************)
(* State.                                                                  *)
(***************************************************************************)
VARIABLES
    doc,            \* the document the call is given
    path,           \* the segments of the CborPath
    transform,      \* the map_function given to write
    pc,             \* where the call stands
    read_result,    \* what CborPath::read returned
    paths_result,   \* what CborPath::get_paths returned
    paths,          \* WriteVisitor.paths
    pending_items,  \* WriteVisitor.pending_items
    current_path,   \* WriteVisitor.current_path
    skip_end,       \* WriteVisitor.skip_end
    is_key,         \* WriteVisitor.is_key
    frames,         \* Cbor::visit: the containers whose begin callback has run and
                    \* whose end callback has not, outermost first
    item,           \* Cbor::visit: the item the next callback is given
    item_loc,       \* the location of item in doc
    calls,          \* the invocations of map_function so far: location and argument
    result          \* what write returned

visitor == <<paths, pending_items, current_path, skip_end, is_key>>
driver == <<frames, item, item_loc>>
vars == <<doc, path, transform, pc, read_result, paths_result, paths, pending_items,
          current_path, skip_end, is_key, frames, item, item_loc, calls, result>>

NoResult == [status |-> "none", value |-> Null]
Ok(v) == [status |-> "ok", value |-> v]
Err == [status |-> "err", value |-> Null]

\* the fields before a call starts; WriteVisitor::new sets the visitor's
InitRest ==
    /\ read_result = <<>>
    /\ paths_result = <<>>
    /\ paths = <<>>
    /\ pending_items = <<<<>>>>
    /\ current_path = <<>>
    /\ skip_end = FALSE
    /\ is_key = FALSE
    /\ frames = <<>>
    /\ item = Null
    /\ item_loc = <<>>
    /\ calls = <<>>
    /\ result = NoResult

(***************************************************************************)
(* CborPath::read and CborPath::get_paths, one after the other on the same *)
(* document.                                                               *)
(***************************************************************************)
InitRead ==
    /\ doc \in Docs
    /\ \E i \in DOMAIN ReadPaths : path = ReadPaths[i]
    /\ transform = Transform("identity", 0)
    /\ pc = "read"
    /\ InitRest

\* CborPath::read returns (with the subtractions wrapped, if any underflows)
Read ==
    /\ pc = "read"
    /\ ~CborPath_divides_by_zero(path, doc)
    /\ read_result' = CborPath_read(path, doc)
    /\ pc' = "get_paths"
    /\ UNCHANGED <<doc, path, transform, paths_result, visitor, driver, calls, result>>

\* CborPath::read panics: a remainder by zero, or a subtraction that underflows in
\* a build with overflow checks
ReadPanic ==
    /\ pc = "read"
    /\ IF CborPath_divides_by_zero(path, doc) THEN TRUE ELSE CborPath_underflows(path, doc)
    /\ pc' = "panic"
    /\ UNCHANGED <<doc, path, transform, read_result, paths_result, visitor, driver,
                   calls, result>>

\* CborPath::get_paths returns
GetPaths ==
    /\ pc = "get_paths"
    /\ paths_result' = CborPath_get_paths(path, doc)
    /\ pc' = "done"
    /\ UNCHANGED <<doc, path, transform, read_result, visitor, driver, calls, result>>

NextRead == Read \/ ReadPanic \/ GetPaths

SpecRead == InitRead /\ [][NextRead]_vars

(***************************************************************************)
(* CborPath::read and CborPath::get_paths with one index or slice selector *)
(* on an array whose element at index i is the integer i (and on a scalar  *)
(* and a map, which are no arrays).                                        *)
(***************************************************************************)
\* the array [0, 1, .., len - 1]
Ascending(len) == Array([i \in 1..len |-> Pos(i - 1)])

SelectDocs == {Ascending(len) : len \in 0..MaxLen} \cup {Pos(1), Dict(<<KeyA>>, <<Pos(1)>>)}

\* the offsets given to the selectors: they reach beyond both ends of the arrays
Offsets == (-(MaxLen + 2))..(MaxLen + 1)

\* SegmentBuilder::index and SegmentBuilder::slice take any isize, step 0 included
SelectPaths ==
    {<<Child(<<IndexSel(o)>>)>> : o \in Offsets}
    \cup {<<Child(<<SliceSel(a, b, c)>>)>> : a \in Offsets, b \in Offsets,
                                           c \in (-MaxStep)..MaxStep}

InitSelect ==
    /\ doc \in SelectDocs
    /\ path \in SelectPaths
    /\ transform = Transform("identity", 0)
    /\ pc = "read"
    /\ InitRest

SpecSelect == InitSelect /\ [][NextRead]_vars

(***************************************************************************)
(* CborPath::read and CborPath::get_paths with the filter `l op r` on the  *)
(* array [a]: the element a is selected when the comparison is true.  The  *)
(* operands are the element itself (@), its entries `a` and `b` (absent    *)
(* when a is no map or has no such key), a value, and the length of the    *)
(* element or of its entry `a`.  No slice is evaluated, so nothing panics. *)
(***************************************************************************)
ComparisonOperator == {"Eq", "Neq", "Gt", "Gte", "Lt", "Lte"}

Ints == (-MaxInt)..MaxInt

\* the values compared: integers, null, two arrays, and the maps of at most
\* MaxEntries entries (in every order, duplicate keys included)
CompareValues ==
    {IntoCborOwned(i) : i \in Ints}
    \cup {Null, Array(<<>>), Array(<<Pos(1), Pos(1)>>)}
    \cup UNION {{Dict(ks, vs) : ks \in [1..n -> Keys], vs \in [1..n -> {Pos(1), Pos(2)}]} :
                 n \in 0..MaxEntries}

\* the path [?l op r]
ComparePath(l, op, r) == <<Child(<<FilterSel(Comparison(l, op, r))>>)>>

InitCompare ==
    /\ \E a \in CompareValues
               \cup {Text(<<>>), Text(<<<<97>>>>), Text(<<<<195, 169>>>>),
                     Text(<<<<97>>, <<195, 169>>>>), Bytes(<<>>), Bytes(<<195, 169>>)} :
           doc = Array(<<a>>)
    /\ \E l \in {Current, SingularPath(FALSE, <<KeySel(KeyA)>>), Length(Current),
                  Length(SingularPath(FALSE, <<KeySel(KeyA)>>))},
          op \in ComparisonOperator,
          r \in {Value(b) : b \in CompareValues} \cup {SingularPath(FALSE, <<KeySel(KeyB)>>)} :
           path = ComparePath(l, op, r)
    /\ transform = Transform("identity", 0)
    /\ pc = "read"
    /\ InitRest

NextCompare == Read \/ GetPaths

SpecCompare == InitCompare /\ [][NextCompare]_vars

(***************************************************************************)
(* CborPath::from_value (conversion.rs): the conversion of a CBOR value    *)
(* into a path.  The value is in doc, the outcome in result: Ok with the   *)
(* segments, or Err, which on this way is always Error::Conversion.  The   *)
(* slice (`:`) and filter (`?`) maps are not among the values converted.   *)
(***************************************************************************)
\* TryFrom<&Cbor> for SegmentForConversion, with TryFrom<&Cbor> for IndexSelector
RECURSIVE SegmentForConversion_try_from(_)
SegmentForConversion_try_from(value) ==
    LET Failed == [t |-> "Err", selectors |-> <<>>]
        Selector(sel) == [t |-> "Selector", selectors |-> <<sel>>]
    IN  CASE IsArray(value) ->
                LET each == [i \in 1..Len(value.items) |->
                                SegmentForConversion_try_from(value.items[i])]
                IN  IF \A i \in 1..Len(each) : each[i].t = "Selector"
                    THEN [t |-> "Selectors",
                          selectors |-> [i \in 1..Len(each) |-> each[i].selectors[1]]]
                    ELSE Failed
          [] IsDict(value) ->
                IF Len(value.keys) # 1 THEN Failed
                ELSE IF value.keys[1] = Text(<<<<46>>, <<46>>>>) THEN
                    LET inner == SegmentForConversion_try_from(value.items[1])
                    IN  IF inner.t \in {"Selector", "Selectors"}
                        THEN [t |-> "Descendant", selectors |-> inner.selectors]
                        ELSE Failed
                ELSE IF value.keys[1] = Text(<<<<42>>>>) THEN
                    IF value.items[1] = Pos(1) THEN Selector(WildcardSel) ELSE Failed
                ELSE IF value.keys[1] = Text(<<<<35>>>>) THEN
                    IF value.items[1].kind = "Pos" THEN Selector(IndexSel(value.items[1].val))
                    ELSE IF value.items[1].kind = "Neg"
                    THEN Selector(IndexSel(-1 - value.items[1].val))
                    ELSE Failed
                ELSE Failed
          [] OTHER -> Selector(KeySel(value))

\* TryFrom<(&Cbor, bool)> for Segments: the text `$` is <<36>>, the text `@` <<64>>
Segments_try_from(value, absolute_path) ==
    LET expected_identifier == IF absolute_path THEN Text(<<<<36>>>>) ELSE Text(<<<<64>>>>)
        each == [i \in 1..(Len(value.items) - 1) |->
                    SegmentForConversion_try_from(value.items[i + 1])]
    IN  CASE value.kind = "Str" ->
                IF value \in {Text(<<<<36>>>>), Text(<<<<64>>>>)} THEN Ok(<<>>) ELSE Err
          [] IsArray(value) ->
                IF value.items = <<>> THEN Err
                ELSE IF value.items[1] # expected_identifier THEN Err
                ELSE IF \E i \in 1..Len(each) : each[i].t = "Err" THEN Err
                ELSE Ok([i \in 1..Len(each) |->
                            [descendant |-> each[i].t = "Descendant",
                             selectors |-> each[i].selectors]])
          [] OTHER -> Err

\* what a value converted starts with, and the values that follow it in an array
InitConvert ==
    LET identifiers == {Text(<<<<36>>>>), Text(<<<<64>>>>), Text(<<<<97>>>>), Pos(1),
                        Array(<<>>)}
        segments == {Text(<<<<97>>>>), Pos(1), Array(<<Text(<<<<97>>>>), Pos(1)>>),
                     Dict(<<Text(<<<<42>>>>)>>, <<Pos(1)>>),
                     Dict(<<Text(<<<<42>>>>)>>, <<Pos(2)>>),
                     Dict(<<Text(<<<<46>>, <<46>>>>)>>, <<Text(<<<<97>>>>)>>),
                     Dict(<<Text(<<<<35>>>>)>>, <<Neg(0)>>),
                     Dict(<<Text(<<<<97>>>>)>>, <<Pos(1)>>),
                     Dict(<<>>, <<>>),
                     Array(<<Dict(<<Text(<<<<46>>, <<46>>>>)>>, <<Text(<<<<97>>>>)>>)>>)}
    IN  /\ doc \in identifiers \cup {Null, Dict(<<>>, <<>>)}
                  \cup UNION {{Array(<<i>> \o f) : i \in identifiers, f \in [1..n -> segments]} :
                              n \in 0..MaxSegments}
        /\ path = <<>>
        /\ transform = Transform("identity", 0)
        /\ pc = "from_value"
        /\ InitRest

\* CborPath::from_value returns
from_value ==
    /\ pc = "from_value"
    /\ result' = Segments_try_from(doc, TRUE)
    /\ pc' = "converted"
    /\ UNCHANGED <<doc, path, transform, read_result, paths_result, visitor, driver, calls>>

SpecConvert == InitConvert /\ [][from_value]_vars

(***************************************************************************)
(* The mutable side of Path that WriteVisitor uses.  current_path is a     *)
(* stack of path elements: is_parent, pop and append_idx are called by     *)
(* write_visitor.rs on it.  visit_dict_key calls append_key on it as a     *)
(* statement, so there append_key pushes the key onto current_path, as     *)
(* append_idx pushes an index.                                             *)
(***************************************************************************)
\* Path::is_parent: self is a strict prefix of p
is_parent(self, p) ==
    /\ Len(self) < Len(p)
    /\ SubSeq(p, 1, Len(self)) = self

\* Vec::pop (Path::pop on a location): drops the last element, if any
pop(p) == IF p = <<>> THEN p ELSE SubSeq(p, 1, Len(p) - 1)

\* Path::append_idx: pushes an index element
append_idx(p, index) == Append(p, PathElement_Index(index))

\* the comparison with the first target only, instead of any of them
is_target_first_only(ps, p) == ps # <<>> /\ ps[1] = p

\* self.paths.iter().any(|p| self.current_path == *p)
is_target(ps, p) == \E i \in 1..Len(ps) : ps[i] = p

\* self.paths.iter().any(|p| self.current_path.is_parent(p))
is_parent_of_any(ps, p) == \E i \in 1..Len(ps) : is_parent(p, ps[i])

(***************************************************************************)
(* The accumulators (pending_items: Vec<Vec<Cow<Cbor>>>).                  *)
(***************************************************************************)
\* pending_items.last_mut() is Some: push v onto the top accumulator
push_item(pending, v) ==
    IF pending = <<>> THEN pending
    ELSE [pending EXCEPT ![Len(pending)] = Append(@, v)]

\* pending_items.last_mut() is Some: Vec::pop on the top accumulator
pop_item(pending) ==
    IF pending = <<>> THEN pending
    ELSE [pending EXCEPT ![Len(pending)] = pop(@)]

\* what the visitor does with the Option the transform returned for an item
store_item(pending, r, isKey) ==
    IF r.some THEN push_item(pending, r.value)
    ELSE IF isKey THEN pop_item(pending)
    ELSE pending

\* an array written from the accumulated items taken last to first
write_array_reversed(items) == Array(Reverse(items))

\* CborBuilder::write_array over the accumulated items
write_array(items) == Array(items)

\* CborBuilder::write_dict over the accumulated items taken two by two: a key
\* left without a value is dropped
write_dict(items) ==
    Dict([k \in 1..(Len(items) \div 2) |-> items[2 * k - 1]],
         [k \in 1..(Len(items) \div 2) |-> items[2 * k]])

(***************************************************************************)
(* Cbor::visit: the traversal that calls the visitor.  A frame is a        *)
(* container whose begin callback has returned: its children from next on  *)
(* are still to visit (none when the callback returned false), then its    *)
(* end callback is called.                                                 *)
(***************************************************************************)
Frame(node, loc, descend) ==
    [node |-> node, loc |-> loc, descended |-> descend,
     next |-> IF descend THEN 1 ELSE Len(node.items) + 1]

top_frame == frames[Len(frames)]

\* the traversal after the callbacks of one item returned: back in the loop of the
\* enclosing container, or out of the outermost call of visit
after_item(fs) == IF fs = <<>> THEN "visited" ELSE "iter"

\* the transform fails at this invocation
fails_now == Len(calls) + 1 = transform.failAt

\* the invocation of map_function on the item being visited
call_now == [path |-> current_path, value |-> item]

(***************************************************************************)
(* CborPath::write: get_paths, then WriteVisitor::new and Cbor::visit,     *)
(* then get_cbor.                                                          *)
(***************************************************************************)
Init ==
    /\ doc \in Docs
    /\ \E i \in DOMAIN WritePaths : path = WritePaths[i]
    /\ transform \in Transforms
    /\ pc = "write"
    /\ InitRest

\* write computes the target locations and starts the traversal at the root
Write ==
    /\ pc = "write"
    /\ paths' = CborPath_get_paths(path, doc)
    /\ item' = doc
    /\ item_loc' = <<>>
    /\ pc' = "visit"
    /\ UNCHANGED <<doc, path, transform, read_result, paths_result, pending_items,
                   current_path, skip_end, is_key, frames, calls, result>>

\* get_paths panics: a subtraction underflows in a build with overflow checks
WritePanic ==
    /\ pc = "write"
    /\ CborPath_underflows(path, doc)
    /\ pc' = "panic"
    /\ UNCHANGED <<doc, path, transform, read_result, paths_result, visitor, driver,
                   calls, result>>

\* visit_simple without the `?`: the error of the transform is dropped, the item
\* is left out and the traversal goes on
visit_simple_drops_error ==
    /\ pc = "visit"
    /\ ~IsContainer(item)
    /\ IF pending_items # <<>> /\ is_target(paths, current_path)
       THEN /\ calls' = Append(calls, call_now)
            /\ pending_items' =
                  IF fails_now THEN pending_items
                  ELSE store_item(pending_items, map_function(transform, item), is_key)
       ELSE /\ pending_items' = push_item(pending_items, item)
            /\ UNCHANGED calls
    /\ is_key' = FALSE
    /\ pc' = after_item(frames)
    /\ UNCHANGED <<doc, path, transform, read_result, paths_result, paths, current_path,
                   skip_end, frames, item, item_loc, result>>

\* WriteVisitor::visit_simple
visit_simple ==
    /\ pc = "visit"
    /\ ~IsContainer(item)
    /\ IF pending_items # <<>> /\ is_target(paths, current_path)
       THEN /\ calls' = Append(calls, call_now)
            /\ IF fails_now
               THEN /\ pc' = "failed"
                    /\ result' = Err
                    /\ UNCHANGED <<pending_items, is_key>>
               ELSE /\ pending_items' =
                          store_item(pending_items, map_function(transform, item), is_key)
                    /\ is_key' = FALSE
                    /\ pc' = after_item(frames)
                    /\ UNCHANGED result
       ELSE /\ pending_items' = push_item(pending_items, item)
            /\ is_key' = FALSE
            /\ pc' = after_item(frames)
            /\ UNCHANGED <<calls, result>>
    /\ UNCHANGED <<doc, path, transform, read_result, paths_result, paths, current_path,
                   skip_end, frames, item, item_loc>>

\* WriteVisitor::visit_array_begin
visit_array_begin ==
    /\ pc = "visit"
    /\ IsArray(item)
    /\ IF is_parent_of_any(paths, current_path)
       THEN /\ pending_items' = Append(pending_items, <<>>)
            /\ frames' = Append(frames, Frame(item, item_loc, TRUE))
            /\ pc' = "iter"
            /\ UNCHANGED <<skip_end, calls, result>>
       ELSE IF pending_items # <<>> /\ is_target(paths, current_path)
       THEN /\ calls' = Append(calls, call_now)
            /\ IF fails_now
               THEN /\ pc' = "failed"
                    /\ result' = Err
                    /\ UNCHANGED <<pending_items, skip_end, frames>>
               ELSE /\ pending_items' =
                          store_item(pending_items, map_function(transform, item), is_key)
                    /\ skip_end' = TRUE
                    /\ frames' = Append(frames, Frame(item, item_loc, FALSE))
                    /\ pc' = "iter"
                    /\ UNCHANGED result
       ELSE /\ pending_items' = push_item(pending_items, item)
            /\ skip_end' = TRUE
            /\ frames' = Append(frames, Frame(item, item_loc, FALSE))
            /\ pc' = "iter"
            /\ UNCHANGED <<calls, result>>
    /\ UNCHANGED <<doc, path, transform, read_result, paths_result, paths, current_path,
                   is_key, item, item_loc>>

\* WriteVisitor::visit_array_index, then Cbor::visit goes to the element
visit_array_index ==
    /\ pc = "iter"
    /\ IsArray(top_frame.node)
    /\ top_frame.next <= Len(top_frame.node.items)
    /\ current_path' = append_idx(IF top_frame.next - 1 > 0 THEN pop(current_path)
                                  ELSE current_path,
                                  top_frame.next - 1)
    /\ item' = top_frame.node.items[top_frame.next]
    /\ item_loc' = append_index(top_frame.loc, top_frame.next - 1)
    /\ frames' = [frames EXCEPT ![Len(frames)].next = @ + 1]
    /\ pc' = "visit"
    /\ UNCHANGED <<doc, path, transform, read_result, paths_result, paths, pending_items,
                   skip_end, is_key, calls, result>>

\* WriteVisitor::visit_array_end
visit_array_end ==
    /\ pc = "iter"
    /\ IsArray(top_frame.node)
    /\ top_frame.next > Len(top_frame.node.items)
    /\ IF skip_end
       THEN /\ skip_end' = FALSE
            /\ UNCHANGED <<pending_items, current_path>>
       ELSE IF pending_items # <<>>
       THEN /\ pending_items' =
                  push_item(pop(pending_items),
                            write_array(pending_items[Len(pending_items)]))
            /\ current_path' = pop(current_path)
            /\ UNCHANGED skip_end
       ELSE UNCHANGED <<pending_items, current_path, skip_end>>
    /\ frames' = pop(frames)
    /\ pc' = after_item(pop(frames))
    /\ UNCHANGED <<doc, path, transform, read_result, paths_result, paths, is_key, item,
                   item_loc, calls, result>>

\* WriteVisitor::visit_dict_begin
visit_dict_begin ==
    /\ pc = "visit"
    /\ IsDict(item)
    /\ IF is_parent_of_any(paths, current_path)
       THEN /\ pending_items' = Append(pending_items, <<>>)
            /\ frames' = Append(frames, Frame(item, item_loc, TRUE))
            /\ pc' = "iter"
            /\ UNCHANGED <<skip_end, calls, result>>
       ELSE IF is_target(paths, current_path)
       THEN /\ calls' = Append(calls, call_now)
            /\ IF fails_now
               THEN /\ pc' = "failed"
                    /\ result' = Err
                    /\ UNCHANGED <<pending_items, skip_end, frames>>
               ELSE /\ pending_items' =
                          store_item(pending_items, map_function(transform, item), is_key)
                    /\ skip_end' = TRUE
                    /\ frames' = Append(frames, Frame(item, item_loc, FALSE))
                    /\ pc' = "iter"
                    /\ UNCHANGED result
       ELSE /\ pending_items' = push_item(pending_items, item)
            /\ skip_end' = TRUE
            /\ frames' = Append(frames, Frame(item, item_loc, FALSE))
            /\ pc' = "iter"
            /\ UNCHANGED <<calls, result>>
    /\ UNCHANGED <<doc, path, transform, read_result, paths_result, paths, current_path,
                   is_key, item, item_loc>>

\* WriteVisitor::visit_dict_key, then Cbor::visit goes to the value of the entry
visit_dict_key ==
    /\ pc = "iter"
    /\ IsDict(top_frame.node)
    /\ top_frame.next <= Len(top_frame.node.items)
    /\ pending_items' = push_item(pending_items, top_frame.node.keys[top_frame.next])
    /\ current_path' = append_key(IF top_frame.next # 1 THEN pop(current_path)
                                  ELSE current_path,
                                  top_frame.node.keys[top_frame.next])
    /\ is_key' = TRUE
    /\ item' = top_frame.node.items[top_frame.next]
    /\ item_loc' = append_key(top_frame.loc, top_frame.node.keys[top_frame.next])
    /\ frames' = [frames EXCEPT ![Len(frames)].next = @ + 1]
    /\ pc' = "visit"
    /\ UNCHANGED <<doc, path, transform, read_result, paths_result, paths, skip_end,
                   calls, result>>

\* WriteVisitor::visit_dict_end
visit_dict_end ==
    /\ pc = "iter"
    /\ IsDict(top_frame.node)
    /\ top_frame.next > Len(top_frame.node.items)
    /\ IF skip_end
       THEN /\ skip_end' = FALSE
            /\ UNCHANGED <<pending_items, current_path>>
       ELSE IF pending_items # <<>>
       THEN /\ pending_items' =
                  push_item(pop(pending_items),
                            write_dict(pending_items[Len(pending_items)]))
            /\ current_path' = pop(current_path)
            /\ UNCHANGED skip_end
       ELSE UNCHANGED <<pending_items, current_path, skip_end>>
    /\ frames' = pop(frames)
    /\ pc' = after_item(pop(frames))
    /\ UNCHANGED <<doc, path, transform, read_result, paths_result, paths, is_key, item,
                   item_loc, calls, result>>

\* the last item of the last accumulator, if there is one
last_item(pending) ==
    IF pending # <<>> /\ pending[Len(pending)] # <<>>
    THEN Some(pending[Len(pending)][Len(pending[Len(pending)])])
    ELSE None

\* WriteVisitor::get_cbor, and write returns the document: unreachable!() panics
\* when there is no item to return
get_cbor ==
    /\ pc = "visited"
    /\ pending_items' = pop(pop_item(pending_items))
    /\ IF last_item(pending_items).some
       THEN /\ result' = Ok(last_item(pending_items).value)
            /\ pc' = "done"
       ELSE /\ pc' = "panic"
            /\ UNCHANGED result
    /\ UNCHANGED <<doc, path, transform, read_result, paths_result, paths, current_path,
                   skip_end, is_key, driver, calls>>

Next ==
    \/ Write
    \/ WritePanic
    \/ visit_simple
    \/ visit_array_begin
    \/ visit_array_index
    \/ visit_array_end
    \/ visit_dict_begin
    \/ visit_dict_key
    \/ visit_dict_end
    \/ get_cbor

Spec == Init /\ [][Next]_vars

(***************************************************************************)
(* Vocabulary of the properties of write.                                  *)
(***************************************************************************)
Done == pc = "done"
Deleting == transform.name = "delete"

\* the location of child i of node is a target
child_is_target(node, loc, i) == is_target(paths, child_path(node, loc, i))

\* the positions from i on of the children of node whose location is not a target
RECURSIVE kept_positions(_, _, _)
kept_positions(node, loc, i) ==
    IF i > Len(node.items) THEN <<>>
    ELSE (IF child_is_target(node, loc, i) THEN <<>> ELSE <<i>>)
         \o kept_positions(node, loc, i + 1)

\* res stands where orig stood after a delete: every array of orig has lost exactly
\* its target elements, and the others stand in their order with their value
\* (a container element with what the delete left of it); maps are only walked through
RECURSIVE ArraysKept(_, _, _)
ArraysKept(orig, res, loc) ==
    LET surv == kept_positions(orig, loc, 1)
        below(k) == IF IsContainer(orig.items[surv[k]])
                    THEN ArraysKept(orig.items[surv[k]], res.items[k],
                                    child_path(orig, loc, surv[k]))
                    ELSE IsDict(orig) \/ res.items[k] = orig.items[surv[k]]
    IN  IF IsArray(orig)
        THEN /\ IsArray(res)
             /\ Len(res.items) = Len(surv)
             /\ \A k \in 1..Len(surv) : below(k)
        ELSE IF IsDict(orig)
        THEN (IsDict(res) /\ Len(res.items) = Len(surv)) => \A k \in 1..Len(surv) : below(k)
        ELSE TRUE

\* C1 - delete on arrays: when write returns a document for the transform that
\* deletes, every array has its original length minus the number of its elements
\* whose location is a target, and its other elements keep value and order,
\* whatever surrounds the array.
C1_DeleteOnArrays == (Done /\ Deleting) => ArraysKept(doc, result.value, <<>>)

\* the nodes of a document, each with its location
RECURSIVE Nodes(_, _)
Nodes(node, loc) ==
    {[loc |-> loc, node |-> node]}
    \cup UNION {Nodes(node.items[i], child_path(node, loc, i)) : i \in 1..Len(node.items)}

\* some strict prefix of loc is a target
has_target_ancestor(loc) == \E i \in 1..Len(paths) : is_parent(paths[i], loc)

\* the transform was invoked at location loc on node
called_on(loc, node) == \E i \in 1..Len(calls) : calls[i] = [path |-> loc, value |-> node]

\* C2 - nested targets: the traversal never descends into a container whose location
\* is a target, even when other targets lie beneath it; and when write returns a
\* document the transform has been applied to every node whose location is a
\* target and that has no target ancestor.
C2_NestedTargets ==
    /\ \A i \in 1..Len(frames) : frames[i].descended => ~is_target(paths, frames[i].loc)
    /\ Done => \A n \in Nodes(doc, <<>>) :
                   (is_target(paths, n.loc) /\ ~has_target_ancestor(n.loc))
                       => called_on(n.loc, n.node)

\* res stands where orig stood after a delete: every map of orig has lost exactly
\* its target entries, key and value, and the others stand in their order with
\* their key and value; arrays are only walked through
RECURSIVE MapsKept(_, _, _)
MapsKept(orig, res, loc) ==
    LET surv == kept_positions(orig, loc, 1)
        below(k) == IF IsContainer(orig.items[surv[k]])
                    THEN MapsKept(orig.items[surv[k]], res.items[k],
                                  child_path(orig, loc, surv[k]))
                    ELSE IsArray(orig) \/ res.items[k] = orig.items[surv[k]]
    IN  IF IsDict(orig)
        THEN /\ IsDict(res)
             /\ Len(res.items) = Len(surv)
             /\ \A k \in 1..Len(surv) : res.keys[k] = orig.keys[surv[k]] /\ below(k)
        ELSE IF IsArray(orig)
        THEN (IsArray(res) /\ Len(res.items) = Len(surv)) => \A k \in 1..Len(surv) : below(k)
        ELSE TRUE

\* C3 - delete on maps: when write returns a document for the transform that
\* deletes, every map has lost the key and the value of each entry whose location
\* is a target, one entry per match, and its other entries keep key, value and order.
C3_DeleteOnMaps == (Done /\ Deleting) => MapsKept(doc, result.value, <<>>)

\* res stands where orig stood after a write: what is neither at nor beneath a
\* target is as it was, and the children of orig that are not targets are found
\* among the children of res in their original order (a map entry with its key)
RECURSIVE FrameKept(_, _, _)
RECURSIVE FrameEmbeds(_, _, _, _, _, _)
\* the children kept[k..] of orig are found in order among the children j.. of res
FrameEmbeds(orig, res, loc, kept, k, j) ==
    IF k > Len(kept) THEN TRUE
    ELSE \E m \in j..Len(res.items) :
            /\ IsDict(orig) => res.keys[m] = orig.keys[kept[k]]
            /\ FrameKept(orig.items[kept[k]], res.items[m], child_path(orig, loc, kept[k]))
            /\ FrameEmbeds(orig, res, loc, kept, k + 1, m + 1)

FrameKept(orig, res, loc) ==
    IF is_target(paths, loc) THEN TRUE
    ELSE IF IsContainer(orig) /\ is_parent_of_any(paths, loc)
    THEN /\ res.kind = orig.kind
         /\ FrameEmbeds(orig, res, loc, kept_positions(orig, loc, 1), 1, 1)
    ELSE res = orig

\* C4 - frame of write: when write returns a document, every node that is neither
\* at nor beneath a target has its original value and its place among the
\* siblings that remain; with no target the document returned is the input.
C4_FrameOfWrite ==
    Done => /\ FrameKept(doc, result.value, <<>>)
            /\ paths = <<>> => result.value = doc

\* the node a location leads to from node: an Index element is the position in
\* an array, a Key element the first entry of a map whose key equals it
RECURSIVE resolve(_, _)
resolve(node, loc) ==
    IF loc = <<>> THEN Some(node)
    ELSE IF Head(loc).tag = "Index"
    THEN IF IsArray(node) /\ Head(loc).index < Len(node.items)
         THEN resolve(node.items[Head(loc).index + 1], Tail(loc))
         ELSE None
    ELSE IF IsDict(node) /\ find_from(node.keys, Head(loc).key, 1) # 0
         THEN resolve(node.items[find_from(node.keys, Head(loc).key, 1)], Tail(loc))
         ELSE None

Setting == transform.name \in {"set", "set_map"} /\ transform.failAt = 0

\* the value the transform sets
set_value == map_function(transform, doc).value

\* get_paths on the written document gives the targets of the write again, and
\* the node at each of them is the value set
RoundTrip ==
    /\ CborPath_get_paths(path, result.value) = paths
    /\ \A i \in 1..Len(paths) : resolve(result.value, paths[i]) = Some(set_value)

\* C5 - round trip of set, as stated: for every path and document, after the
\* write that sets a value, get_paths on the result returns the locations it
\* returned on the document, and the node at each is the value.
C5_RoundTripOfSet == (Done /\ Setting) => RoundTrip

\* no selector of the path is a filter: what it selects depends on no node's value
NoFilter(segments) ==
    \A i \in 1..Len(segments) :
        \A j \in 1..Len(segments[i].selectors) : segments[i].selectors[j].t # "Filter"

\* the path is made of child segments: every location it selects has one element
\* per segment
ChildSegments(segments) == \A i \in 1..Len(segments) : ~segments[i].descendant

\* no map of the document holds the same key twice
RECURSIVE NoDuplicateKeys(_)
NoDuplicateKeys(node) ==
    /\ \A i, j \in 1..Len(node.keys) : node.keys[i] = node.keys[j] => i = j
    /\ \A i \in 1..Len(node.items) : NoDuplicateKeys(node.items[i])

\* C5 - round trip of set, amended: for every path made of child segments
\* without filter selectors and every document in which no map holds the same key
\* twice, after the write that sets a value get_paths on the result returns the
\* locations it returned on the document, and the node at each is the value.
C5_RoundTripOfSetChildSegments ==
    (Done /\ Setting /\ ChildSegments(path) /\ NoFilter(path) /\ NoDuplicateKeys(doc))
        => RoundTrip

\* a set of a map through a two-segment path has replaced two nodes or more
C5_Witness ==
    /\ Done
    /\ transform.name = "set_map"
    /\ Len(path) = 2
    /\ ChildSegments(path)
    /\ NoFilter(path)
    /\ NoDuplicateKeys(doc)
    /\ Len(paths) >= 2
    /\ result.value # doc

\* C6 - write with the root path: with a path of zero segments the document
\* returned is the transform's value for the whole document (set of 12 to 13
\* gives 13, append to a root array gives the longer array).
C6_WriteAtRoot ==
    (Done /\ path = <<>> /\ map_function(transform, doc).some)
        => result.value = map_function(transform, doc).value

\* what holds in every state of a write whose transform fails at its
\* failAt-th invocation
FailureSafe ==
    /\ transform.failAt > 0 => Len(calls) <= transform.failAt
    /\ pc = "failed" => /\ result = Err
                        /\ Len(calls) = transform.failAt
    /\ (transform.failAt > 0 /\ Len(calls) = transform.failAt) => pc = "failed"
    /\ result.status = "ok" => (transform.failAt = 0 \/ Len(calls) < transform.failAt)

\* C7 - transform failure: when the transform returns an error the traversal
\* stops at that callback (no step follows), the error is what write returns,
\* the transform is invoked for no later node, and no document is returned.
C7_TransformFailure == [](FailureSafe) /\ [][pc # "failed"]_vars

\* the transform failed at its second invocation with targets left to visit
C7_Witness ==
    /\ pc = "failed"
    /\ Len(calls) = 2
    /\ Len(paths) > 2
    /\ frames # <<>>

(***************************************************************************)
(* Properties of read and get_paths (SpecRead).                            *)
(***************************************************************************)
ReadDone == pc = "done"

\* C8 - pairing (length), as stated: for every path, the path with zero segments
\* included, read and get_paths return the same number of results.
C8_PairingLength == ReadDone => Len(read_result) = Len(paths_result)

\* C8 - pairing (length), amended: for every path with at least one segment and
\* every document, read and get_paths return the same number of results.
C8_PairingLengthWithSegments ==
    (ReadDone /\ path # <<>>) => Len(read_result) = Len(paths_result)

\* a descendant segment selected two nodes or more
C8_Witness ==
    /\ ReadDone
    /\ path # <<>>
    /\ path[1].descendant
    /\ Len(read_result) >= 2
    /\ Len(paths_result) >= 2

\* following the i-th location from the root reaches the i-th node read
Resolves ==
    \A i \in 1..Len(paths_result) :
        /\ i <= Len(read_result)
        /\ resolve(doc, paths_result[i]) = Some(read_result[i])

\* C9 - pairing (resolution), as stated: for every path and document, maps with
\* duplicate keys included, following the i-th location of get_paths from the
\* root reaches a node equal to the i-th node of read.
C9_PairingResolution == ReadDone => Resolves

\* C9 - pairing (resolution), amended: for every path and every document in which
\* no map holds the same key twice, following the i-th location of get_paths from
\* the root reaches a node equal to the i-th node of read.
C9_PairingResolutionDistinctKeys == (ReadDone /\ NoDuplicateKeys(doc)) => Resolves

\* a slice with a negative step selected two elements or more, which differ
C9_Witness ==
    /\ ReadDone
    /\ NoDuplicateKeys(doc)
    /\ Len(path) = 1
    /\ path[1].selectors[1].t = "Slice"
    /\ path[1].selectors[1].step < 0
    /\ Len(paths_result) >= 2
    /\ read_result[1] # read_result[2]

\* the path is one slice selector whose window over the document's elements is
\* empty (or the document is no array): no element matches it
SliceMatchesNothing ==
    /\ Len(path) = 1
    /\ Len(path[1].selectors) = 1
    /\ path[1].selectors[1].t = "Slice"
    /\ IsArray(doc) =>
           slice_window(path[1].selectors[1], Len(doc.items)).stop
               <= slice_window(path[1].selectors[1], Len(doc.items)).skip

\* C10 - totality of evaluation: read and get_paths never panic on a path whose
\* slices have a non-zero step, and they return the empty list when nothing
\* matches.
C10_Totality ==
    /\ pc # "panic"
    /\ (ReadDone /\ SliceMatchesNothing) => (read_result = <<>> /\ paths_result = <<>>)

(***************************************************************************)
(* Properties of the index and slice selectors (SpecSelect).               *)
(***************************************************************************)
\* read has returned
ReadReturned == pc \in {"get_paths", "done"}

\* the one selector of the path
TheSelector == path[1].selectors[1]
IsSlice == TheSelector.t = "Slice"
IsIndex == TheSelector.t = "Index"
DocLen == Len(doc.items)

\* an offset counted from the end when negative
normalized(o, len) == IF o < 0 THEN len + o ELSE o
\* x brought into lo .. hi
clamped(x, lo, hi) == IF x < lo THEN lo ELSE IF x > hi THEN hi ELSE x

\* the elements of the array [0, 1, ..] at the given indices
elements_at(indices) == [k \in 1..Len(indices) |-> Pos(indices[k])]

\* the members of a set of integers from the greatest down
RECURSIVE Descending(_)
Descending(S) ==
    IF S = {} THEN <<>>
    ELSE LET m == CHOOSE x \in S : \A y \in S : y <= x
         IN  <<m>> \o Descending(S \ {m})

\* start, start + step, .. below end, with start and end normalized and clamped
\* into 0 .. len
forward_indices(sel, len) ==
    LET lower == clamped(normalized(sel.start, len), 0, len)
        upper == clamped(normalized(sel.end, len), 0, len)
        count == IF upper > lower THEN (upper - lower + sel.step - 1) \div sel.step ELSE 0
    IN  [k \in 1..count |-> lower + (k - 1) * sel.step]

\* C11 - slice with step > 0: start and end are normalized, then clamped into
\* 0 .. len (a value still negative clamps to 0); what read returns is the elements
\* at start, start + step, .. below end, ascending, and nothing when start >= end.
C11_SliceForward ==
    (ReadReturned /\ IsArray(doc) /\ IsSlice /\ TheSelector.step > 0)
        => read_result = elements_at(forward_indices(TheSelector, DocLen))

\* the indices start, start + step, .. (step < 0) that are above end and inside
\* the array, start and end normalized
backward_indices(sel, len) ==
    LET first == normalized(sel.start, len)
        bound == normalized(sel.end, len)
    IN  Descending({i \in 0..(len - 1) :
                       i <= first /\ i > bound /\ (first - i) % (-sel.step) = 0})

\* C12 - slice with step < 0: with start and end normalized, what read returns is
\* the elements at start, start + step, .. that are above end and inside the
\* array, in descending order of index; no element at or below end is selected
\* (start 6, end 1, step -3 gives the indices 6 and 3).
C12_SliceBackward ==
    (ReadReturned /\ IsArray(doc) /\ IsSlice /\ TheSelector.step < 0)
        => read_result = elements_at(backward_indices(TheSelector, DocLen))

\* the indices len - 1, len - 1 + step, .. (step < 0) down to the smallest that is
\* not negative
from_last_indices(step, len) ==
    Descending({i \in 0..(len - 1) : (len - 1 - i) % (-step) = 0})

\* C13 - slice with step < 0 whose end lies before the beginning of the array: for
\* every end <= -len - 1, slice(len - 1, end, step) gives the elements at len - 1,
\* len - 1 + step, .. down to the smallest such index >= 0; with step -1 it is the
\* whole array reversed.
C13_SliceEndBeforeArray ==
    (ReadReturned /\ IsArray(doc) /\ IsSlice /\ TheSelector.step < 0
        /\ DocLen >= 1 /\ TheSelector.start = DocLen - 1 /\ TheSelector.end <= -DocLen - 1)
        => read_result = elements_at(from_last_indices(TheSelector.step, DocLen))

\* the path is slice(b - 1, a - 1, -1) for some lowest <= a < b <= len
IsMirrorSlice(lowest) ==
    /\ IsArray(doc)
    /\ IsSlice
    /\ TheSelector.step = -1
    /\ TheSelector.end + 1 >= lowest
    /\ TheSelector.end < TheSelector.start
    /\ TheSelector.start < DocLen

\* what read returns is the reverse of slice(a, b, 1) on the same array
MirrorsForward ==
    read_result = Reverse(SliceSelector_read(
                      SliceSel(TheSelector.end + 1, TheSelector.start + 1, 1), doc))

\* C14 - slice symmetry, as stated: for all 0 <= a < b <= len, a = 0 included, the
\* reverse of slice(a, b, 1) is slice(b - 1, a - 1, -1).
C14_SliceSymmetry == (ReadReturned /\ IsMirrorSlice(0)) => MirrorsForward

\* C14 - slice symmetry, amended: for all 1 <= a < b <= len, the reverse of
\* slice(a, b, 1) is slice(b - 1, a - 1, -1).
C14_SliceSymmetryFromOne == (ReadReturned /\ IsMirrorSlice(1)) => MirrorsForward

\* a slice(b - 1, a - 1, -1) with 1 <= a returned three elements or more
C14_Witness ==
    /\ ReadReturned
    /\ IsMirrorSlice(1)
    /\ Len(read_result) >= 3
    /\ read_result[1] = Pos(TheSelector.start)

\* C15 - slice with step 0: the evaluation never crashes (no division by zero),
\* and a slice with step 0 that is not rejected selects nothing.
C15_SliceStepZero ==
    (IsSlice /\ TheSelector.step = 0)
        => /\ pc # "panic"
           /\ ReadReturned => read_result = <<>>
           /\ ReadDone => paths_result = <<>>

\* the index an offset selects in an array of len elements, if any
selected_index(o, len) ==
    IF 0 <= o /\ o < len THEN <<o>>
    ELSE IF -len <= o /\ o < 0 THEN <<len + o>>
    ELSE <<>>

\* the index the selector selects in the document, none when it is no array
index_selected == IF IsArray(doc) THEN selected_index(TheSelector.index, DocLen) ELSE <<>>

\* C16 - index selector: offset o selects the element at o when 0 <= o < len, at
\* len + o when -len <= o < 0, and nothing otherwise (o >= len, o < -len, no
\* array); get_paths reports the normalized index, which is not negative.
C16_IndexSelector ==
    IsIndex
        => /\ pc # "panic"
           /\ ReadReturned => read_result = elements_at(index_selected)
           /\ ReadDone => paths_result =
                              [k \in 1..Len(index_selected) |->
                                  <<PathElement_Index(index_selected[k])>>]

\* a negative offset selected an element that is not the first, and get_paths
\* reported its index
C16_Witness ==
    /\ ReadDone
    /\ IsIndex
    /\ TheSelector.index < 0
    /\ Len(read_result) = 1
    /\ Len(paths_result) = 1
    /\ paths_result[1][1].index > 0

(***************************************************************************)
(* Properties of the segments (SpecRead).                                  *)
(***************************************************************************)
\* the results of the selectors, in their order, on one node
RECURSIVE selectors_on_node(_, _, _)
selectors_on_node(selectors, root, node) ==
    IF selectors = <<>> THEN <<>>
    ELSE Selector_read(Head(selectors), root, node)
         \o selectors_on_node(Tail(selectors), root, node)

\* the results on each node, in the order of the nodes
RECURSIVE selectors_on_nodes(_, _, _)
selectors_on_nodes(selectors, root, nodes) ==
    IF nodes = <<>> THEN <<>>
    ELSE selectors_on_node(selectors, root, Head(nodes))
         \o selectors_on_nodes(selectors, root, Tail(nodes))

LastSegment == path[Len(path)]
\* the nodes the last segment is given: what the segments before it selected
LastInputs == CborPath_read(SubSeq(path, 1, Len(path) - 1), doc)

\* C17 - child segment: its result is the concatenation, for each input node in
\* order and for each selector in order, of the selector's result on the node;
\* duplicates are kept (two identical selectors give every match twice).
C17_ChildSegment ==
    (ReadReturned /\ path # <<>> /\ ~LastSegment.descendant)
        => read_result = selectors_on_nodes(LastSegment.selectors, doc, LastInputs)

\* a child segment of two identical selectors was given two nodes with children
\* and returned every child twice, node after node
C17_Witness ==
    /\ ReadReturned
    /\ Len(path) = 2
    /\ ~LastSegment.descendant
    /\ Len(LastSegment.selectors) = 2
    /\ LastSegment.selectors[1] = LastSegment.selectors[2]
    /\ Len(read_result) >= 4
    /\ read_result[1] = read_result[2]
    /\ read_result[2] # read_result[3]

\* the path starts with a descendant segment, and read and get_paths have returned
DescendantDone == ReadDone /\ path # <<>> /\ path[1].descendant

\* the (node, location) pairs the descendant segment applies its selectors to when
\* it is given the node n of the document
expansion(n) == Segment_get_paths_inputs(path[1], <<[value |-> n.node, path |-> n.loc]>>)

\* the nodes the descendant segment applies its selectors to in read, given n
expansion_read(n) == Segment_read_inputs(path[1], <<n.node>>)

\* the nodes of a list of (node, location) pairs
values_of(E) == [k \in 1..Len(E) |-> E[k].value]

\* a node, then its first child followed by that child's whole subtree, then its
\* next child, ..
RECURSIVE pre_order(_, _)
pre_order(node, loc) ==
    <<[value |-> node, path |-> loc]>>
    \o Concat([i \in 1..Len(node.items) |->
                  pre_order(node.items[i], child_path(node, loc, i))])

\* C18 - descendant segment order, as stated: the list of nodes a descendant
\* segment applies its selectors to is the pre-order depth-first traversal of its
\* input node (a node, then its first child followed by that child's whole
\* subtree, then its next child, ..).
C18_DescendantPreOrder ==
    DescendantDone
        => \A n \in Nodes(doc, <<>>) :
               /\ expansion(n) = pre_order(n.node, n.loc)
               /\ expansion_read(n) = values_of(pre_order(n.node, n.loc))

\* the children of a node in document order
children_of(node, loc) ==
    [i \in 1..Len(node.items) |-> [value |-> node.items[i], path |-> child_path(node, loc, i)]]

\* what follows a node: all of its children in document order, then what follows
\* its first child, then what follows its next child, ..
RECURSIVE children_first(_, _)
children_first(node, loc) ==
    IF node.items = <<>> THEN <<>>
    ELSE LET children == children_of(node, loc)
         IN  children
             \o Concat([i \in 1..Len(children) |->
                           children_first(children[i].value, children[i].path)])

\* the node n, then what follows it
node_then_children_first(n) ==
    <<[value |-> n.node, path |-> n.loc]>> \o children_first(n.node, n.loc)

\* C18 - descendant segment order, amended: the list of nodes a descendant segment
\* applies its selectors to is, for its input node: the node, then all of its
\* children in document order, then the descendants of its first child listed the
\* same way, then those of its next child, ..
C18_DescendantChildrenFirst ==
    DescendantDone
        => \A n \in Nodes(doc, <<>>) :
               /\ expansion(n) = node_then_children_first(n)
               /\ expansion_read(n) = values_of(node_then_children_first(n))

\* the document has a grandchild below its first child and a second child, which
\* the segment lists before the grandchild
C18_Witness ==
    /\ DescendantDone
    /\ Len(doc.items) >= 2
    /\ doc.items[1].items # <<>>
    /\ expansion([node |-> doc, loc |-> <<>>])[3].value = doc.items[2]
    /\ expansion_read([node |-> doc, loc |-> <<>>])[3] = doc.items[2]
    /\ doc.items[2] # doc.items[1].items[1]
    /\ read_result # <<>>

\* the number of nodes at and below node that are x, a (node, location) pair
RECURSIVE occurrences(_, _, _)
RECURSIVE occurrences_from(_, _, _, _)
occurrences_from(node, loc, x, i) ==
    IF i > Len(node.items) THEN 0
    ELSE occurrences(node.items[i], child_path(node, loc, i), x)
         + occurrences_from(node, loc, x, i + 1)
occurrences(node, loc, x) ==
    (IF [value |-> node, path |-> loc] = x THEN 1 ELSE 0) + occurrences_from(node, loc, x, 1)

\* the number of nodes at and below node
RECURSIVE size(_)
RECURSIVE size_from(_, _)
size_from(node, i) ==
    IF i > Len(node.items) THEN 0 ELSE size(node.items[i]) + size_from(node, i + 1)
size(node) == 1 + size_from(node, 1)

\* p is a strict prefix of q
strict_prefix(p, q) == Len(p) < Len(q) /\ SubSeq(q, 1, Len(p)) = p

\* p and q are the locations of two elements of one array, p the earlier
earlier_element(p, q) ==
    /\ p # <<>>
    /\ Len(p) = Len(q)
    /\ SubSeq(p, 1, Len(p) - 1) = SubSeq(q, 1, Len(q) - 1)
    /\ p[Len(p)].tag = "Index"
    /\ q[Len(q)].tag = "Index"
    /\ p[Len(p)].index < q[Len(q)].index

\* E lists n and each of its descendants once, a node before its descendants and
\* the elements of an array in array order
Covers(E, n) ==
    /\ E # <<>>
    /\ E[1] = [value |-> n.node, path |-> n.loc]
    /\ Len(E) = size(n.node)
    /\ \A k \in 1..Len(E) :
           Cardinality({j \in 1..Len(E) : E[j] = E[k]}) = occurrences(n.node, n.loc, E[k])
    /\ \A i, j \in 1..Len(E) :
           (strict_prefix(E[i].path, E[j].path) \/ earlier_element(E[i].path, E[j].path))
               => i < j

\* C19 - descendant segment coverage: for each input node, the expansion holds the
\* node and each of its descendants exactly once, every node before all of its
\* own descendants, and the elements of any array in array order.
C19_DescendantCoverage ==
    DescendantDone => \A n \in Nodes(doc, <<>>) : Covers(expansion(n), n)

\* the document holds an array of two elements inside a map, and the segment
\* selected something
C19_Witness ==
    /\ DescendantDone
    /\ IsDict(doc)
    /\ \E i \in 1..Len(doc.items) : IsArray(doc.items[i]) /\ Len(doc.items[i].items) = 2
    /\ Len(expansion([node |-> doc, loc |-> <<>>])) = 4
    /\ read_result # <<>>

(***************************************************************************)
(* Properties of the filter comparisons (SpecCompare).                     *)
(***************************************************************************)
\* the integer an item encodes
integer_of(v) == IF v.kind = "Neg" THEN -1 - v.val ELSE v.val

\* the comparison of the filter, its right operand and the element it is run on
TheComparison == path[1].selectors[1].expr
TheElement == doc.items[1]
IsInteger(v) == v.kind \in {"Pos", "Neg"}
\* the filter is `@ op b` for a value b
ComparesElementWithValue == TheComparison.left = Current /\ TheComparison.right.t = "Value"
\* the filter is `@ op b` for integers @ and b
ComparesIntegers ==
    /\ ComparesElementWithValue
    /\ IsInteger(TheElement)
    /\ IsInteger(TheComparison.right.value)
LeftInteger == integer_of(TheElement)
RightInteger == integer_of(TheComparison.right.value)

\* the mathematical ordering of the integers
ordered(op, a, b) ==
    CASE op = "Lt" -> a < b
      [] op = "Lte" -> a <= b
      [] op = "Gt" -> a > b
      [] op = "Gte" -> a >= b

\* C20 - filter comparison `<` on numbers: for integers a and b, each positive,
\* zero or negative, `a < b` is true exactly when a is less than b; `>`, `<=` and
\* `>=` follow from `<` and `==`.  The filter [?@ op b] selects the element a of
\* [a] exactly when a op b.
C20_NumberComparison ==
    (ReadReturned /\ ComparesIntegers /\ TheComparison.op \in {"Lt", "Lte", "Gt", "Gte"})
        => read_result = IF ordered(TheComparison.op, LeftInteger, RightInteger)
                         THEN doc.items ELSE <<>>

(***************************************************************************)
(* Map equality in a filter comparison (SpecCompare).                      *)
(***************************************************************************)
\* the filter is `@ op b` for two maps @ and b, neither holding a key twice
ComparesMaps ==
    /\ ComparesElementWithValue
    /\ IsDict(TheElement) /\ NoDuplicateKeys(TheElement)
    /\ IsDict(TheComparison.right.value) /\ NoDuplicateKeys(TheComparison.right.value)

\* the same number of entries, and every key of m1 has an equal key in m2 with an
\* equal value (the values of the maps compared are integers)
maps_equal(m1, m2) ==
    /\ Len(m1.keys) = Len(m2.keys)
    /\ \A i \in 1..Len(m1.keys) : \E j \in 1..Len(m2.keys) :
           m1.keys[i] = m2.keys[j] /\ m1.items[i] = m2.items[j]

\* C21 - map equality in filter comparisons: two maps without duplicate keys are
\* equal exactly when they have the same number of entries and every key of the
\* first has an equal key in the second with an equal value, whatever the order
\* of the entries.  The filter [?@ == b] selects the map a of [a] exactly then.
C21_MapEquality ==
    (ReadReturned /\ ComparesMaps /\ TheComparison.op = "Eq")
        => read_result = IF maps_equal(TheElement, TheComparison.right.value)
                         THEN doc.items ELSE <<>>

(***************************************************************************)
(* Comparisons with absent operands (SpecCompare).                         *)
(***************************************************************************)
\* the element is selected by the filter, or it is not
Selected == read_result = doc.items
NotSelected == read_result = <<>>

\* the operand is a path that resolves to no node of the element: the entry of a
\* key which the element, a map or not, does not hold
absent(c) ==
    /\ c.t = "SingularPath"
    /\ c.segments # <<>>
    /\ ~(IsDict(TheElement) /\ \E i \in 1..Len(TheElement.keys) :
                                   TheElement.keys[i] = c.segments[1].key)

\* the operands are values and paths
ComparesPathsAndValues == TheComparison.left.t # "Length"
BothAbsent == absent(TheComparison.left) /\ absent(TheComparison.right)
OneAbsent == absent(TheComparison.left) # absent(TheComparison.right)

\* C22 - comparisons with absent operands: when both operands resolve to no node,
\* `==`, `<=` and `>=` are true and `!=`, `<`, `>` are false; when exactly one
\* does, `!=` is true and the other five are false.  A present null is not absent:
\* `@ == null` is true on a null element, and `@.a == null` is false when the
\* element has no entry a.
C22_AbsentOperands ==
    (ReadReturned /\ ComparesPathsAndValues) =>
        /\ BothAbsent =>
               IF TheComparison.op \in {"Eq", "Lte", "Gte"} THEN Selected ELSE NotSelected
        /\ OneAbsent =>
               IF TheComparison.op = "Neq" THEN Selected ELSE NotSelected
        /\ (/\ TheComparison.left = Current
            /\ TheElement = Null
            /\ TheComparison.right = Value(Null)
            /\ TheComparison.op = "Eq") => Selected
        /\ (/\ absent(TheComparison.left)
            /\ TheComparison.right = Value(Null)
            /\ TheComparison.op = "Eq") => NotSelected

\* `@.a <= @.b` on an element that has neither entry: the element is selected
C22_Witness ==
    /\ ReadReturned
    /\ ComparesPathsAndValues
    /\ BothAbsent
    /\ TheComparison.op = "Lte"
    /\ IsDict(TheElement)
    /\ Selected

(***************************************************************************)
(* The context of a filter (SpecRead).                                     *)
(***************************************************************************)
\* the last segment is made of one filter selector
EndsWithFilter ==
    /\ path # <<>>
    /\ Len(LastSegment.selectors) = 1
    /\ LastSegment.selectors[1].t = "Filter"
TheFilter == LastSegment.selectors[1].expr

\* the expression is the test `@[?e]` of a nested filter
IsNestedFilter(e) ==
    /\ e.t = "Path"
    /\ ~e.path.abs
    /\ Len(e.path.segments) = 1
    /\ ~e.path.segments[1].descendant
    /\ Len(e.path.segments[1].selectors) = 1
    /\ e.path.segments[1].selectors[1].t = "Filter"

\* the expression is true of the candidate child: relative paths start at the
\* child and absolute ones at the document; the test `@[?e]` is true when e is
\* true of some child of the candidate, with the document still the root
Keeps(e, child) ==
    IF IsNestedFilter(e) THEN
        /\ IsContainer(child)
        /\ \E i \in 1..Len(child.items) :
               BooleanExpr_read(e.path.segments[1].selectors[1].expr, doc, child.items[i])
    ELSE BooleanExpr_read(e, doc, child)

\* the children of the node that the filter keeps, in container order
children_kept(e, node) ==
    LET Test(child) == Keeps(e, child)
    IN  IF IsContainer(node) THEN SelectSeq(node.items, Test) ELSE <<>>

\* C23 - filter context: a filter selector keeps exactly the children of the
\* container it iterates for which the expression is true, in container order,
\* with relative paths evaluated against the candidate child and absolute ones
\* against the document given to read, also in a nested filter and in a filter of
\* a descendant segment.
C23_FilterContext ==
    (ReadReturned /\ EndsWithFilter) =>
        LET inputs == Segment_read_inputs(LastSegment, LastInputs)
        IN  read_result = Concat([k \in 1..Len(inputs) |-> children_kept(TheFilter, inputs[k])])

\* the nested filter `$[?@[?@ == $.a]]` kept some children of the document and
\* left others out
C23_Witness ==
    /\ ReadReturned
    /\ EndsWithFilter
    /\ IsNestedFilter(TheFilter)
    /\ read_result # <<>>
    /\ Len(read_result) < Len(doc.items)

(***************************************************************************)
(* The length function (SpecCompare).                                      *)
(***************************************************************************)
\* the filter is `length(c) op b` for a value b
ComparesLength == TheComparison.left.t = "Length" /\ TheComparison.right.t = "Value"

\* the argument of length: the element, or its first entry of the key
LengthArgumentAbsent == absent(TheComparison.left.arg)
LengthArgument ==
    IF TheComparison.left.arg.segments = <<>> THEN TheElement
    ELSE TheElement.items[CHOOSE i \in 1..Len(TheElement.keys) :
             /\ TheElement.keys[i] = TheComparison.left.arg.segments[1].key
             /\ \A j \in 1..(i - 1) :
                    TheElement.keys[j] # TheComparison.left.arg.segments[1].key]

\* the length of a present value: the number of elements or entries, of bytes of
\* a byte string, of characters of a text string, and 1 for any other value
length_of(v) ==
    CASE IsContainer(v) -> Len(v.items)
      [] v.kind \in {"Str", "Bytes"} -> Len(v.val)
      [] OTHER -> 1

\* C24 - length function: the length of an absent argument is absent; that of an
\* array or a map is its number of elements or entries, that of a byte string its
\* number of bytes, that of a text string its number of characters, and that of
\* any other value is 1.  The filter [?length(c) == n] selects the element exactly
\* when c is present and has the length n.
C24_LengthFunction ==
    (ReadReturned /\ ComparesLength /\ TheComparison.op = "Eq")
        => IF LengthArgumentAbsent THEN NotSelected
           ELSE IF TheComparison.right.value = Pos(length_of(LengthArgument)) THEN Selected
           ELSE NotSelected

(***************************************************************************)
(* The conversion of a value into a path (SpecConvert).                    *)
(***************************************************************************)
Converted == pc = "converted"

\* the value is the text `$` or an array whose first element is the text `$`
BeginsWithRoot ==
    \/ doc = Text(<<<<36>>>>)
    \/ IsArray(doc) /\ doc.items # <<>> /\ doc.items[1] = Text(<<<<36>>>>)

\* C25 - CborPath::from_value accepts only expressions that begin with the root
\* identifier `$`: for any other value, the text `@` and an array starting with
\* `@` included, it returns Error::Conversion and no path.
C25_RootIdentifier == (Converted /\ ~BeginsWithRoot) => result = Err

(***************************************************************************)
(* The invocations of the transform (Spec).                                *)
(***************************************************************************)
\* the invocations due below node, in document order: one on the node when its
\* location is a target, and otherwise those due below its children in their order
RECURSIVE due_calls(_, _)
due_calls(node, loc) ==
    IF is_target(paths, loc) THEN <<[path |-> loc, value |-> node]>>
    ELSE Concat([i \in 1..Len(node.items) |->
                    due_calls(node.items[i], child_path(node, loc, i))])

\* C26 - invocations of the transform: when write returns a document, the
\* transform has been invoked exactly once on each node whose location is a target
\* and that has no target ancestor, in document order, and on no other node, even
\* when the list of targets holds a location more than once.
C26_TransformInvocations == Done => calls = due_calls(doc, <<>>)

(***************************************************************************)
(* The identity write (Spec).                                              *)
(***************************************************************************)
Identity == transform.name = "identity" /\ transform.failAt = 0

\* C27 - identity write: for every path and every document, write with the
\* transform x -> Some(x) returns a document equal to the original: every array
\* and every map rebuilt on the way holds what it held, in the same order.
C27_IdentityWrite == (Done /\ Identity) => result = Ok(doc)

\* an array of two different elements, one of them a target, was rebuilt
C27_Witness ==
    /\ Done
    /\ Identity
    /\ IsArray(doc)
    /\ Len(doc.items) = 2
    /\ doc.items[1] # doc.items[2]
    /\ calls # <<>>
    /\ result = Ok(doc)

(***************************************************************************)
(* WriteVisitor::new(paths, map_function) followed by the traversal and    *)
(* get_cbor, for any list of target locations of the document: the         *)
(* location of the root, a location listed twice and a location beneath    *)
(* another are among them.  The documents are those of write and the       *)
(* document [{"a": [], "a": [1]}], where an empty array stands at the      *)
(* location of an array with an element.                                   *)
(***************************************************************************)
InitVisitor ==
    /\ doc \in Docs \cup {Array(<<Dict(<<KeyA, KeyA>>, <<Array(<<>>), Array(<<Pos(1)>>)>>)>>)}
    /\ path = <<>>
    /\ transform \in Transforms
    /\ pc = "visit"
    /\ read_result = <<>>
    /\ paths_result = <<>>
    /\ \E n \in 0..MaxTargets : paths \in [1..n -> {x.loc : x \in Nodes(doc, <<>>)}]
    /\ pending_items = <<<<>>>>
    /\ current_path = <<>>
    /\ skip_end = FALSE
    /\ is_key = FALSE
    /\ frames = <<>>
    /\ item = doc
    /\ item_loc = <<>>
    /\ calls = <<>>
    /\ result = NoResult

NextVisitor ==
    \/ visit_simple
    \/ visit_array_begin
    \/ visit_array_index
    \/ visit_array_end
    \/ visit_dict_begin
    \/ visit_dict_key
    \/ visit_dict_end
    \/ get_cbor

SpecVisitor == InitVisitor /\ [][NextVisitor]_vars

(***************************************************************************)
(* The accumulator stack of the write visitor (SpecVisitor).               *)
(***************************************************************************)
\* the traversal is going on, or has completed without error
Traversing == pc \in {"visit", "iter", "visited"}
Visited == pc = "visited"

\* the containers entered and not yet left
open_descended == {i \in 1..Len(frames) : frames[i].descended}

\* C28 - accumulator stack: at every point of a traversal pending_items holds one
\* accumulator more than there are open descended containers; when the traversal
\* completes without error it holds exactly one accumulator with exactly one
\* item, so get_cbor never reaches unreachable!(); for every transform, one
\* that returns none for a target at the document root included.
C28_AccumulatorStack ==
    /\ Traversing => Len(pending_items) = 1 + Cardinality(open_descended)
    /\ Visited => Len(pending_items) = 1 /\ Len(pending_items[1]) = 1
    /\ pc # "panic"

(***************************************************************************)
(* The key flag of the write visitor (Spec).                               *)
(***************************************************************************)
\* the scalar callback or a container-begin callback is about to be called on item
Visiting == pc = "visit"

\* the item visited is the value of a map entry: its key was visited just before
VisitingEntryValue == item_loc # <<>> /\ item_loc[Len(item_loc)].tag = "Key"

\* C29 - key flag: is_key is true only while the value that follows a map key is
\* visited; when an array element or the document root is visited, by the scalar
\* callback or a container-begin callback, is_key is false, so that a deletion
\* there pops no item from the accumulator.
C29_KeyFlag == (Visiting /\ ~VisitingEntryValue) => ~is_key

(***************************************************************************)
(* The location tracking of the write visitor (SpecVisitor).               *)
(***************************************************************************)
\* the begin callback of the container last entered returned false, and its end
\* callback has not been called yet
InsideNonDescended == frames # <<>> /\ ~top_frame.descended

\* C30 - location tracking: at every scalar callback and every container-begin
\* callback current_path is the location of the visited node from the document
\* root, empty at the root, whatever containers were descended or not and
\* whatever siblings came before; and skip_end is true only between the begin
\* callback of a non-descended container and the end callback of that container.
C30_LocationTracking ==
    /\ Visiting => current_path = item_loc
    /\ Traversing => (skip_end => InsideNonDescended)

====
